---- MODULE Spec2Model ----
(***************************************************************************)
(* State-machine model of the visa-consultation backend: the SQLite        *)
(* persistence gateway (backend/config/database.js), the express error     *)
(* middleware (backend/middleware/errorHandler.js) and the request         *)
(* handlers of the newsletter, contact, feedback and visa routers.         *)
(*                                                                         *)
(* A request runs in a slot.  Every await of a handler is a step of its    *)
(* own, so the steps of two requests interleave exactly where node's       *)
(* event loop lets them interleave.  Strings that the code validates or    *)
(* normalises are sequences of one-character strings.                      *)
(***************************************************************************)
EXTENDS Integers, Sequences, FiniteSets, TLC

(***************************************************************************)
(* Bounds of the model.                                                    *)
(***************************************************************************)
NumSlots == 2
MaxReqs == 3
MaxId == 2
MaxToken == 2
MaxDay == 2
MaxSeqReqs == 2
MaxOpens == 2

Slots == 1..NumSlots

(***************************************************************************)
(* Characters and strings.                                                 *)
(***************************************************************************)
LowerLetters == {"a", "b", "c", "l", "m", "o"}
UpperLetters == {"A"}
Digits == {"1"}

ToLowerCase(c) == IF c = "A" THEN "a" ELSE c

\* String.prototype.toUpperCase and toLowerCase on the letters in use.
UpperOf(c) ==
  CASE c = "a" -> "A" [] c = "c" -> "C" [] c = "d" -> "D" [] c = "e" -> "E"
    [] c = "i" -> "I" [] c = "s" -> "S" [] c = "z" -> "Z" [] OTHER -> c

LowerOf(c) ==
  CASE c = "A" -> "a" [] c = "C" -> "c" [] c = "D" -> "d" [] c = "E" -> "e"
    [] c = "I" -> "i" [] c = "S" -> "s" [] c = "Z" -> "z" [] OTHER -> c

toUpperCase(str) == [i \in DOMAIN str |-> UpperOf(str[i])]

toLowerCase(str) == [i \in DOMAIN str |-> LowerOf(str[i])]

\* String.prototype.substr(start, length)
substr(str, start, length) ==
  IF start >= Len(str) THEN << >>
  ELSE SubSeq(str, start + 1,
              IF start + length < Len(str) THEN start + length ELSE Len(str))

\* Date.now() in decimal (the requests of a behaviour arrive within one
\* millisecond), and Math.random().toString(36): the digits of a number in
\* [0, 1), which are "0" for 0 and "0." and the base-36 digits of the
\* fraction otherwise.
Nows == {<<"1", "7">>}
Randoms == {<<"0">>, <<"0", ".", "a", "1", "c", "2", "e", "s", "z">>}

\* `${prefix}-${Date.now()}-${Math.random().toString(36)
\*     .substr(2, length).toUpperCase()}`
Identifier(prefix, now, random, length) ==
  prefix \o <<"-">> \o now \o <<"-">> \o toUpperCase(substr(random, 2, length))

Absent == << >>

RECURSIVE TrimLeft(_)
TrimLeft(s) == IF s # << >> /\ Head(s) = " " THEN TrimLeft(Tail(s)) ELSE s

RECURSIVE TrimRight(_)
TrimRight(s) ==
  IF s # << >> /\ s[Len(s)] = " " THEN TrimRight(SubSeq(s, 1, Len(s) - 1)) ELSE s

Trim(s) == TrimRight(TrimLeft(s))

\* isLength({min, max}) of express-validator.
isLength(s, min, max) == Len(s) >= min /\ Len(s) <= max

\* matches(/^[a-zA-Z\s'-]+$/)
NameChars == LowerLetters \cup UpperLetters \cup {" ", "'", "-"}
matchesName(s) == s # << >> /\ \A i \in DOMAIN s : s[i] \in NameChars

\* isEmail(): one "@", a non-empty local part, and a domain made of a
\* non-empty label, a dot and a top-level label of two letters or more.
EmailChars == LowerLetters \cup UpperLetters \cup Digits
isEmail(s) ==
  LET ats == {i \in DOMAIN s : s[i] = "@"}
  IN  /\ Cardinality(ats) = 1
      /\ LET a == CHOOSE i \in ats : TRUE
             dots == {i \in DOMAIN s : i > a /\ s[i] = "."}
         IN  /\ a > 1
             /\ \A i \in 1..(a - 1) : s[i] \in EmailChars
             /\ dots # {}
             /\ LET d == CHOOSE i \in dots : \A j \in dots : j <= i
                IN  /\ d > a + 1
                    /\ Len(s) - d >= 2
                    /\ \A i \in (a + 1)..Len(s) :
                         s[i] \in EmailChars \cup {"."}
                    /\ \A i \in (d + 1)..Len(s) :
                         s[i] \in LowerLetters \cup UpperLetters

\* normalizeEmail(): the address in lower case.
normalizeEmail(s) == [i \in DOMAIN s |-> ToLowerCase(s[i])]

EmailA == <<"a", "@", "b", ".", "c", "o", "m">>
EmailAUpper == <<"A", "@", "b", ".", "c", "o", "m">>
EmailC == <<"c", "@", "b", ".", "c", "o", "m">>
EmailBad == <<"a", "b">>
RawEmails == {EmailA, EmailAUpper, EmailC, EmailBad}

NameAl == <<"A", "l">>
NameShort == <<"A">>
NameDigit == <<"A", "1">>
RawNames == {NameAl, NameShort, NameDigit}

(***************************************************************************)
(* The schema of the store: the columns of each table.                     *)
(***************************************************************************)
Columns ==
  [ visa_applications |->
      {"id", "application_id", "full_name", "email", "phone", "nationality",
       "passport_number", "visa_type", "purpose_of_visit", "duration_of_stay",
       "arrival_date", "departure_date", "accommodation_details",
       "sponsor_information", "previous_uae_visit", "criminal_record",
       "medical_conditions", "emergency_contact_name",
       "emergency_contact_phone", "emergency_contact_relationship",
       "passport_copy_path", "photo_path", "cv_path",
       "additional_documents_path", "status", "created_at", "updated_at"},
    contact_messages |->
      {"id", "message_id", "full_name", "email", "phone", "inquiry_type",
       "subject", "message", "preferred_contact", "urgency_level",
       "newsletter_subscription", "status", "created_at", "updated_at"},
    feedback |->
      {"id", "feedback_id", "full_name", "email", "phone", "visa_type",
       "service_rating", "would_recommend", "feedback_title",
       "feedback_message", "aspects_impressed", "allow_public_display",
       "allow_contact", "status", "is_featured", "created_at", "updated_at"},
    newsletter_subscriptions |->
      {"id", "email", "full_name", "subscription_date", "is_active",
       "unsubscribe_token", "created_at", "updated_at"},
    application_status_log |->
      {"id", "application_id", "old_status", "new_status", "notes",
       "changed_by", "created_at"} ]

\* A statement is prepared only if every column it names exists.
SqlOk(table, cols) == cols \subseteq Columns[table]

(***************************************************************************)
(* Errors and responses.                                                   *)
(***************************************************************************)
\* statusCode 0 and code "" stand for an undefined property.
AppError(statusCode, code) ==
  [statusCode |-> statusCode,
   status |-> IF statusCode \div 100 = 4 THEN "fail" ELSE "error",
   isOperational |-> TRUE, code |-> code, message |-> code]

\* The error a rejected sqlite3 call carries.
SqliteError(code, message) ==
  [statusCode |-> 0, status |-> "", isOperational |-> FALSE, code |-> code,
   message |-> message]

\* Why sqlite3 rejects a statement whatever the rows are: it names a column
\* the table lacks, or the database file cannot be read or written.
SqlFailure(stmt, ioOk) ==
  IF ~SqlOk(stmt.table, stmt.cols)
  THEN SqliteError("SQLITE_ERROR", "no such column")
  ELSE SqliteError("SQLITE_IOERR", "disk I/O error")

Rejected(stmt, ioOk) == ~SqlOk(stmt.table, stmt.cols) \/ ~ioOk

UniqueFailed(column) ==
  SqliteError("SQLITE_CONSTRAINT", "UNIQUE constraint failed: " \o column)

\* The error of a call to a name the module never imported.
ReferenceError ==
  [statusCode |-> 0, status |-> "", isOperational |-> FALSE, code |-> "",
   message |-> "getRow is not defined"]

\* The data member of a response body: the records it returns (rows,
\* history), the pagination it reports and the identifier it names.
NoData ==
  [rows |-> << >>, history |-> << >>, total |-> 0, total_pages |-> 0,
   id |-> << >>]

\* A response: the HTTP status (code) and the members of the JSON body;
\* errcode is the body's code, "" when the body has none or null, and
\* stack tells whether the body holds the error object and its stack.
NoResponse ==
  [code |-> 0, status |-> "", outcome |-> "", errcode |-> "", errors |-> {},
   stack |-> FALSE, data |-> NoData, message |-> ""]

Success(code, outcome) ==
  [code |-> code, status |-> "success", outcome |-> outcome, errcode |-> "",
   errors |-> {}, stack |-> FALSE, data |-> NoData, message |-> outcome]

sendErrorDev(err) ==
  [code |-> err.statusCode, status |-> err.status, outcome |-> "",
   errcode |-> err.code, errors |-> {}, stack |-> TRUE, data |-> NoData,
   message |-> err.message]

sendErrorProd(err) ==
  IF err.isOperational
  THEN [code |-> err.statusCode, status |-> err.status, outcome |-> "",
        errcode |-> err.code, errors |-> {}, stack |-> FALSE,
        data |-> NoData, message |-> err.message]
  ELSE [code |-> 500, status |-> "error", outcome |-> "",
        errcode |-> "INTERNAL_SERVER_ERROR", errors |-> {}, stack |-> FALSE,
        data |-> NoData,
        message |-> "Something went wrong! Please try again later."]

\* The body of the 404 handler: error, message and availableEndpoints.
EndpointNotFound ==
  [code |-> 404, status |-> "", outcome |-> "", errcode |-> "", errors |-> {},
   stack |-> FALSE, data |-> NoData,
   message |-> "The requested endpoint does not exist"]

handleDuplicateFieldsDB == AppError(400, "DUPLICATE_FIELD")

\* The handler with 400 as the default status.
errorHandlerDefault400(err, env) ==
  LET e == [err EXCEPT !.statusCode = IF @ = 0 THEN 400 ELSE @,
                        !.status = IF @ = "" THEN "fail" ELSE @]
  IN  IF env = "development" THEN sendErrorDev(e) ELSE sendErrorProd(e)

errorHandler(err, env) ==
  LET e == [err EXCEPT !.statusCode = IF @ = 0 THEN 500 ELSE @,
                        !.status = IF @ = "" THEN "error" ELSE @]
  IN  IF env = "development"
      THEN sendErrorDev(e)
      ELSE sendErrorProd(IF e.code = "11000" THEN handleDuplicateFieldsDB ELSE e)

\* An error of validationResult(req): the field, the message of the
\* validator that failed and the value it was given.
ValidationError(path, msg, value) ==
  [path |-> path, msg |-> msg, value |-> value]

\* One validator of a chain: it adds an error when the value fails it,
\* and the chain goes on to its next validator either way.
Validator(passes, path, msg, value) ==
  IF passes THEN {} ELSE {ValidationError(path, msg, value)}

\* A response that reports one of the errors only.
handleValidationErrorsFirstOnly(errors) ==
  [code |-> 400, status |-> "fail", outcome |-> "",
   errcode |-> "VALIDATION_ERROR",
   errors |-> LET error == CHOOSE e \in errors : TRUE
              IN  {[field |-> error.path, message |-> error.msg,
                    value |-> error.value]},
   stack |-> FALSE, data |-> NoData, message |-> "Validation failed"]

handleValidationErrors(errors) ==
  [code |-> 400, status |-> "fail", outcome |-> "",
   errcode |-> "VALIDATION_ERROR",
   errors |-> {[field |-> error.path, message |-> error.msg,
                value |-> error.value] : error \in errors},
   stack |-> FALSE, data |-> NoData, message |-> "Validation failed"]

(***************************************************************************)
(* State.                                                                  *)
(***************************************************************************)
VARIABLES
  nodeEnv,                   \* process.env.NODE_ENV
  newsletter_subscriptions,  \* the rows of each table, in insertion order
  contact_messages,
  feedback,
  visa_applications,
  application_status_log,
  reqs,                      \* the request running in each slot
  served,                    \* number of requests received so far
  uploads,                   \* the files multer's diskStorage has written
  server,                    \* database.js and the process that loaded it
  mailer,                    \* emailService.js: the template cache and its calls
  form                       \* the visa form in the browser

tables == <<newsletter_subscriptions, contact_messages, feedback,
            visa_applications, application_status_log>>

vars == <<nodeEnv, newsletter_subscriptions, contact_messages, feedback,
          visa_applications, application_status_log, reqs, served, uploads,
          server, mailer, form>>

\* req.query of a list request (page and limit as the strings the URL
\* carries, Absent when the URL has none), and the ORDER BY the handler
\* composed from it.
NoQuery ==
  [page |-> Absent, limit |-> Absent, filters |-> {}, sort_by |-> "",
   sort_order |-> Absent, order |-> << >>]

\* A slot: the request's inputs after validation (category holds the
\* form's enumerated field), the handler's position, the handler's locals
\* (ident is the identifier it generated), the response, and counters of
\* what the request did (store writes that succeeded and failed, calls of
\* sendEmail, the message of the error handed to errorHandler).  body is
\* req.body as a contact or feedback form sent it.
IdleReq ==
  [op |-> "idle", pc |-> "idle", email |-> Absent, name |-> Absent, id |-> 0,
   status |-> "", category |-> "", notes |-> FALSE, rating |-> 0, arrival |-> 0,
   departure |-> 0, duration |-> 0, files |-> {}, found |-> << >>,
   token |-> 0, res |-> NoResponse, writes |-> 0, failed |-> 0, mails |-> 0,
   mailFailed |-> FALSE, handled |-> "", query |-> NoQuery,
   ident |-> << >>, body |-> << >>]

NewReq(op) == [IdleReq EXCEPT !.op = op]

\* A new request takes the first slot that runs none.
Free(s) ==
  /\ served < MaxReqs
  /\ reqs[s].pc \in {"idle", "done"}
  /\ \A t \in Slots : t < s => reqs[t].pc \notin {"idle", "done"}

At(s, op, pc) == reqs[s].op = op /\ reqs[s].pc = pc

\* The handler returned: its locals are gone; what stays is what the
\* request was (op, id, ident, email, status, notes, files) and what it did.
Finished(r) ==
  [r EXCEPT !.pc = "done", !.name = Absent, !.category = "", !.rating = 0,
            !.arrival = 0, !.departure = 0, !.duration = 0,
            !.found = << >>]

\* res.status(..).json(..): the handler ends.
Respond(r, response) == [Finished(r) EXCEPT !.res = response]

\* catchAsync: a rejection of the handler goes to next(err), that is, to
\* errorHandler.
catchAsync(r, err) ==
  [Finished(r) EXCEPT !.res = errorHandler(err, nodeEnv),
                      !.handled = err.message]

\* db.get: the first matching row, or nothing.
FirstRow(rows) == IF rows = << >> THEN << >> ELSE <<Head(rows)>>

(***************************************************************************)
(* config/database.js and the process of server.js.                        *)
(*                                                                         *)
(* server.main is the program that loaded database.js: "server" is         *)
(* node server.js; "module" is a program that requires config/database.js  *)
(* by itself and calls what it exports, initializeDatabase only while the  *)
(* handle is null.                                                         *)
(***************************************************************************)
TableNames ==
  {"visa_applications", "contact_messages", "feedback",
   "newsletter_subscriptions", "application_status_log"}

StoreOps == {"runQuery", "getRow", "getRows", "healthCheck"}

\* No store operation was invoked yet.
NoCall ==
  [caller |-> "", op |-> "", handle |-> "", result |-> "", message |-> << >>]

\* The process after require('./config/database'): let db = null.
Loaded(main, schema) ==
  [main |-> main, phase |-> "load", db |-> "null", opened |-> 0,
   closed |-> 0, init |-> "none", queued |-> {}, completed |-> 0,
   schema |-> schema, call |-> NoCall, exitCode |-> 0, signal |-> ""]

\* The process of server.js once app.listen was called.
Running ==
  [Loaded("server", TableNames) EXCEPT
     !.phase = "listening", !.db = "open", !.opened = 1,
     !.init = "resolved", !.completed = 5]

(***************************************************************************)
(* utils/emailService.js: the template cache.                              *)
(***************************************************************************)
\* Two of the templates the routers name: one that defaultTemplates holds
\* and one that it lacks.
TemplateNames == {"contact-confirmation", "new-contact-admin"}

\* The keys of defaultTemplates.
defaultTemplates ==
  {"visa-application-confirmation", "contact-confirmation",
   "feedback-confirmation", "newsletter-welcome"}

\* A compiled template: what it was compiled from (the file of a name, the
\* inline default of a name, the basic markup).
NoTemplate == [source |-> "", name |-> ""]

FileTemplate(templateName) == [source |-> "file", name |-> templateName]

DefaultTemplate(templateName) == [source |-> "default", name |-> templateName]

BasicTemplate == [source |-> "basic", name |-> ""]

\* A call of sendEmail, getTemplate or loadTemplate: hit is whether the
\* cache held the name when loadTemplate began, read the outcome of its
\* fs.readFile, html the template returned, threw whether the call
\* rejected.
IdleSend ==
  [fn |-> "", template |-> "", pc |-> "idle", hit |-> FALSE, read |-> "",
   html |-> NoTemplate, threw |-> FALSE]

\* const templateCache = new Map(), and no call.
NoMailer ==
  [templateCache |-> [n \in TemplateNames |-> NoTemplate],
   calls |-> [c \in Slots |-> IdleSend]]

(***************************************************************************)
(* frontend/js/forms.js: the dependent sections of the visa form.  Each    *)
(* section holds one input.                                                *)
(***************************************************************************)
VisaTypes == {"business", "tourist", "transit", "family"}

Sections ==
  {".business-fields", ".sponsor-fields", ".tourist-fields",
   ".transit-fields", ".family-fields"}

\* const dependentFields = {..}; a value that is no key has no sections.
dependentFields(visaType) ==
  CASE visaType = "business" -> <<".business-fields", ".sponsor-fields">>
    [] visaType = "tourist" -> <<".tourist-fields">>
    [] visaType = "transit" -> <<".transit-fields">>
    [] visaType = "family" -> <<".family-fields", ".sponsor-fields">>
    [] OTHER -> << >>

\* Object.values(dependentFields).flat()
AllDependentFields ==
  dependentFields("business") \o dependentFields("tourist")
  \o dependentFields("transit") \o dependentFields("family")

\* The form as the page delivers it: atLoad is whether the input of each
\* section carries required in the markup, wasRequired is
\* input.dataset.wasRequired ("" while unset), value is the selected visa
\* type, ready whether setupDependentFields has run.
FormAtLoad(atLoad, value) ==
  [atLoad |-> atLoad, required |-> atLoad,
   wasRequired |-> [sel \in Sections |-> ""],
   display |-> [sel \in Sections |-> ""],
   value |-> value, ready |-> FALSE]

NoForm == FormAtLoad([sel \in Sections |-> FALSE], "")

(***************************************************************************)
(* Initial states.  Init is the process started on a new database file.    *)
(* The file outlives the process and CREATE TABLE IF NOT EXISTS keeps its  *)
(* rows, so InitNews also starts on a file that holds a subscription that  *)
(* was deactivated.                                                        *)
(***************************************************************************)
InitialSubscriptions ==
  { << >>,
    <<[id |-> 1, email |-> EmailA, full_name |-> Absent, is_active |-> FALSE,
       unsubscribe_token |-> 1]>> }

InitStore(subscriptions) ==
  /\ nodeEnv \in {"development", "production"}
  /\ newsletter_subscriptions \in subscriptions
  /\ contact_messages = << >>
  /\ feedback = << >>
  /\ visa_applications = << >>
  /\ application_status_log = << >>
  /\ reqs = [s \in Slots |-> IdleReq]
  /\ served = 0
  /\ uploads = {}
  /\ server = Running
  /\ mailer = NoMailer
  /\ form = NoForm

Init == InitStore({<< >>})

(***************************************************************************)
(* database.js: opening, creating the tables, the store operations; and   *)
(* server.js: startServer and the signal handlers.                         *)
(***************************************************************************)
\* A promise settles once: resolve and reject after that are ignored.
Settle(promise, outcome) == IF promise = "pending" THEN outcome ELSE promise

\* initializeDatabase up to its return: db = new sqlite3.Database(DB_PATH,
\* callback) assigns the handle at once, the callback runs later.
initializeDatabase(sv) ==
  [sv EXCEPT !.db = "opening", !.opened = @ + 1, !.init = "pending",
             !.queued = {}, !.completed = 0]

\* The callback of new sqlite3.Database: on an error the promise is
\* rejected and db keeps the handle; otherwise createTables queues one
\* db.run per table with completed = 0.
OpenCallback ==
  /\ server.phase # "exited"
  /\ server.db = "opening"
  /\ \E ok \in BOOLEAN :
       server' =
         IF ok
         THEN [server EXCEPT !.db = "open", !.queued = TableNames,
                             !.completed = 0]
         ELSE [server EXCEPT !.db = "failed",
                             !.init = Settle(@, "rejected")]
  /\ UNCHANGED <<nodeEnv, tables, reqs, served, uploads, mailer, form>>

\* CREATE TABLE IF NOT EXISTS: the table is created when the file lacks
\* it, and a table the file holds is left as it is.
CreateTableIfNotExists(schema, table) == schema \cup {table}

\* The callback of one db.run(tableSQL) of createTables: an error rejects,
\* a success counts, and the count reaching tables.length resolves.
CreateTableCallback(table) ==
  /\ server.phase # "exited"
  /\ server.db = "open"
  /\ table \in server.queued
  /\ \E ok \in BOOLEAN :
       server' =
         IF ok
         THEN [server EXCEPT
                 !.queued = @ \ {table},
                 !.schema = CreateTableIfNotExists(@, table),
                 !.completed = @ + 1,
                 !.init = IF server.completed + 1 = Cardinality(TableNames)
                          THEN Settle(@, "resolved") ELSE @]
         ELSE [server EXCEPT !.queued = @ \ {table},
                             !.init = Settle(@, "rejected")]
  /\ UNCHANGED <<nodeEnv, tables, reqs, served, uploads, mailer, form>>

\* startServer up to its await: it calls initializeDatabase.
StartServer ==
  /\ server.main = "server"
  /\ server.phase = "load"
  /\ server' = [initializeDatabase(server) EXCEPT !.phase = "init"]
  /\ UNCHANGED <<nodeEnv, tables, reqs, served, uploads, mailer, form>>

\* startServer after await initializeDatabase() returned: app.listen.
Listen ==
  /\ server.main = "server"
  /\ server.phase = "init"
  /\ server.init = "resolved"
  /\ server' = [server EXCEPT !.phase = "listening"]
  /\ UNCHANGED <<nodeEnv, tables, reqs, served, uploads, mailer, form>>

\* The catch of startServer: process.exit(1).
StartFailed ==
  /\ server.main = "server"
  /\ server.phase = "init"
  /\ server.init = "rejected"
  /\ server' = [server EXCEPT !.phase = "exited", !.exitCode = 1]
  /\ UNCHANGED <<nodeEnv, tables, reqs, served, uploads, mailer, form>>

\* process.on('SIGTERM') and process.on('SIGINT'): log and process.exit(0).
Signal(sig) ==
  /\ server.main = "server"
  /\ server.phase \in {"init", "listening"}
  /\ server' = [server EXCEPT !.phase = "exited", !.exitCode = 0,
                              !.signal = sig]
  /\ UNCHANGED <<nodeEnv, tables, reqs, served, uploads, mailer, form>>

NotInitialized == <<"Database not initialized">>

\* getDatabase without its test of db.
getDatabaseUnchecked(handle) == [threw |-> FALSE, message |-> << >>]

\* getDatabase: throws while db is null.
getDatabase(handle) ==
  IF handle = "null"
  THEN [threw |-> TRUE,
        message |-> NotInitialized \o <<"Call initializeDatabase() first">>]
  ELSE [threw |-> FALSE, message |-> << >>]

\* What a store operation returns when called with the handle in the given
\* state: a promise that is rejected, or resolved when sqlite3 reports
\* success (ok).  runQuery, getRow and getRows call getDatabase and use the
\* handle inside the executor of their promise, where a throw rejects the
\* promise; healthCheck tests db itself.
StoreCall(caller, op, handle, ok) ==
  LET database == getDatabase(handle)
      call == [caller |-> caller, op |-> op, handle |-> handle,
               result |-> "", message |-> << >>]
  IN  IF op = "healthCheck"
      THEN IF handle = "null"
           THEN [call EXCEPT !.result = "rejected",
                             !.message = NotInitialized]
           ELSE [call EXCEPT !.result = IF ok /\ handle = "open"
                                        THEN "resolved" ELSE "rejected"]
      ELSE IF database.threw
      THEN [call EXCEPT !.result = "rejected", !.message = database.message]
      ELSE IF handle = "null"
      THEN [call EXCEPT !.result = "rejected",
                        !.message = <<"Cannot read properties of null">>]
      ELSE [call EXCEPT !.result = IF ok /\ handle = "open"
                                   THEN "resolved" ELSE "rejected"]

\* A request handler of the listening server invokes a store operation.
HandlerCall(op) ==
  /\ server.main = "server"
  /\ server.phase = "listening"
  /\ \E ok \in BOOLEAN :
       server' = [server EXCEPT
                    !.call = StoreCall("handler", op, server.db, ok)]
  /\ UNCHANGED <<nodeEnv, tables, reqs, served, uploads, mailer, form>>

\* The program that requires the module calls initializeDatabase.
ModuleInitialize ==
  /\ server.main = "module"
  /\ server.db = "null"
  /\ server.opened < MaxOpens
  /\ server' = initializeDatabase(server)
  /\ UNCHANGED <<nodeEnv, tables, reqs, served, uploads, mailer, form>>

\* The program that requires the module invokes a store operation.
ModuleCall(op) ==
  /\ server.main = "module"
  /\ server.db \in {"null", "open"}
  /\ \E ok \in BOOLEAN :
       server' = [server EXCEPT
                    !.call = StoreCall("module", op, server.db, ok)]
  /\ UNCHANGED <<nodeEnv, tables, reqs, served, uploads, mailer, form>>

\* closeDatabase with its callback, called while no statement is pending:
\* db.close, then db = null on success; with db null it resolves at once.
ModuleClose ==
  /\ server.main = "module"
  /\ server.db \in {"null", "open"}
  /\ server.queued = {}
  /\ \E ok \in BOOLEAN :
       server' =
         IF server.db = "open" /\ ok
         THEN [server EXCEPT !.db = "null", !.closed = @ + 1]
         ELSE server
  /\ UNCHANGED <<nodeEnv, tables, reqs, served, uploads, mailer, form>>

\* The process starts on a database file that holds any of the tables,
\* with the rows an earlier process left in newsletter_subscriptions.
InitServer ==
  /\ nodeEnv \in {"development", "production"}
  /\ \E main \in {"server", "module"}, schema \in SUBSET TableNames :
       server = Loaded(main, schema)
  /\ newsletter_subscriptions \in
       IF "newsletter_subscriptions" \in server.schema
       THEN InitialSubscriptions ELSE {<< >>}
  /\ contact_messages = << >>
  /\ feedback = << >>
  /\ visa_applications = << >>
  /\ application_status_log = << >>
  /\ reqs = [s \in Slots |-> IdleReq]
  /\ served = 0
  /\ uploads = {}
  /\ mailer = NoMailer
  /\ form = NoForm

NextServer ==
  \/ StartServer
  \/ OpenCallback
  \/ \E table \in TableNames : CreateTableCallback(table)
  \/ Listen
  \/ StartFailed
  \/ \E sig \in {"SIGTERM", "SIGINT"} : Signal(sig)
  \/ \E op \in StoreOps : HandlerCall(op)
  \/ ModuleInitialize
  \/ \E op \in StoreOps : ModuleCall(op)
  \/ ModuleClose

SpecServer == InitServer /\ [][NextServer]_vars

(***************************************************************************)
(* utils/emailService.js: loadTemplate, getTemplate, sendEmail.            *)
(***************************************************************************)
\* loadTemplate that never finds the name in the cache.
templateCacheGetNever(cache, templateName) == NoTemplate

\* if (templateCache.has(templateName)) return templateCache.get(..)
templateCacheGet(cache, templateName) == cache[templateName]

\* loadTemplate after await fs.readFile: the compiled file is stored under
\* the name and returned; when the read failed, the catch of loadTemplate
\* returns the basic template and stores nothing.  It never throws.
loadTemplate(cache, templateName, fileOk) ==
  IF fileOk
  THEN [cache |-> [cache EXCEPT ![templateName] = FileTemplate(templateName)],
        threw |-> FALSE, template |-> FileTemplate(templateName)]
  ELSE [cache |-> cache, threw |-> FALSE, template |-> BasicTemplate]

\* getTemplate: what loadTemplate returned, and in its catch the inline
\* default of the name or the basic template.
getTemplate(templateName, loaded) ==
  IF ~loaded.threw THEN loaded.template
  ELSE IF templateName \in defaultTemplates
  THEN DefaultTemplate(templateName)
  ELSE BasicTemplate

\* The value the call returns for what loadTemplate gave it.
Returned(fn, templateName, loaded) ==
  IF fn = "loadTemplate" THEN loaded.template
  ELSE getTemplate(templateName, loaded)

\* A call of one of the exported functions with a template name, up to its
\* first await: sendEmail creates the transporter (which may throw), then
\* loadTemplate looks the name up and, when the cache lacks it, starts
\* fs.readFile.
TemplateCall(c) ==
  /\ mailer.calls[c].pc \in {"idle", "done"}
  /\ \E fn \in {"sendEmail", "getTemplate", "loadTemplate"},
        templateName \in TemplateNames, transportOk \in BOOLEAN :
       LET call == [IdleSend EXCEPT !.fn = fn, !.template = templateName]
           cached == templateCacheGet(mailer.templateCache, templateName)
           loaded == [cache |-> mailer.templateCache, threw |-> FALSE,
                      template |-> cached]
       IN  /\ fn # "sendEmail" => transportOk
           /\ mailer' = [mailer EXCEPT !.calls[c] =
                IF ~transportOk
                THEN [call EXCEPT !.pc = "done", !.threw = TRUE]
                ELSE IF cached # NoTemplate
                THEN [call EXCEPT
                        !.pc = IF fn = "sendEmail" THEN "sendMail" ELSE "done",
                        !.hit = TRUE,
                        !.html = Returned(fn, templateName, loaded)]
                ELSE [call EXCEPT !.pc = "readFile"]]
  /\ UNCHANGED <<nodeEnv, tables, reqs, served, uploads, server, form>>

\* fs.readFile settles and loadTemplate goes on.
ReadFile(c) ==
  /\ mailer.calls[c].pc = "readFile"
  /\ \E fileOk \in BOOLEAN :
       LET call == mailer.calls[c]
           loaded == loadTemplate(mailer.templateCache, call.template, fileOk)
       IN  mailer' =
             [templateCache |-> loaded.cache,
              calls |-> [mailer.calls EXCEPT ![c] =
                [call EXCEPT
                   !.pc = IF call.fn = "sendEmail" THEN "sendMail" ELSE "done",
                   !.read = IF fileOk THEN "ok" ELSE "failed",
                   !.html = Returned(call.fn, call.template, loaded)]]]
  /\ UNCHANGED <<nodeEnv, tables, reqs, served, uploads, server, form>>

\* await transporter.sendMail(mailOptions): sendEmail returns its result
\* or logs and rethrows its error.
SendMail(c) ==
  /\ mailer.calls[c].pc = "sendMail"
  /\ \E mailOk \in BOOLEAN :
       mailer' = [mailer EXCEPT !.calls[c].pc = "done",
                                !.calls[c].threw = ~mailOk]
  /\ UNCHANGED <<nodeEnv, tables, reqs, served, uploads, server, form>>

NextMailer ==
  \E c \in Slots :
    \/ TemplateCall(c)
    \/ ReadFile(c)
    \/ SendMail(c)

SpecMailer == Init /\ [][NextMailer]_vars

(***************************************************************************)
(* frontend/js/forms.js: setupDependentFields and handleVisaTypeChange.    *)
(***************************************************************************)
\* String(input.hasAttribute('required'))
BooleanString(b) == IF b THEN "true" ELSE "false"

RECURSIVE HideAll(_, _)
\* The first loop: for each selector in turn, display none, wasRequired
\* set from the attribute, and the attribute removed.
HideAll(f, selectors) ==
  IF selectors = << >> THEN f
  ELSE LET sel == Head(selectors)
       IN  HideAll([f EXCEPT !.display[sel] = "none",
                             !.wasRequired[sel] = BooleanString(f.required[sel]),
                             !.required[sel] = FALSE],
                   Tail(selectors))

RECURSIVE ShowAll(_, _)
\* The second loop: display block, and required set again when
\* wasRequired is 'true'.
ShowAll(f, selectors) ==
  IF selectors = << >> THEN f
  ELSE LET sel == Head(selectors)
       IN  ShowAll([f EXCEPT !.display[sel] = "block",
                             !.required[sel] =
                               IF f.wasRequired[sel] = "true" THEN TRUE ELSE @],
                   Tail(selectors))

handleVisaTypeChange(f, visaType) ==
  ShowAll(HideAll(f, AllDependentFields), dependentFields(visaType))

\* setupDependentFields: the listener is added and the handler runs once
\* with the value the select has.
SetupDependentFields ==
  /\ ~form.ready
  /\ form' = [handleVisaTypeChange(form, form.value) EXCEPT !.ready = TRUE]
  /\ UNCHANGED <<nodeEnv, tables, reqs, served, uploads, server, mailer>>

\* The change listener: the user selects a visa type (or the empty option).
VisaTypeChange(visaType) ==
  /\ form.ready
  /\ form' = [handleVisaTypeChange(form, visaType) EXCEPT !.value = visaType]
  /\ UNCHANGED <<nodeEnv, tables, reqs, served, uploads, server, mailer>>

\* The page with any of the inputs required in its markup and any option
\* selected.
InitForm ==
  /\ nodeEnv \in {"development", "production"}
  /\ newsletter_subscriptions = << >>
  /\ contact_messages = << >>
  /\ feedback = << >>
  /\ visa_applications = << >>
  /\ application_status_log = << >>
  /\ reqs = [s \in Slots |-> IdleReq]
  /\ served = 0
  /\ uploads = {}
  /\ server = Running
  /\ mailer = NoMailer
  /\ \E atLoad \in [Sections -> BOOLEAN], value \in VisaTypes \cup {""} :
       form = FormAtLoad(atLoad, value)

NextForm ==
  \/ SetupDependentFields
  \/ \E visaType \in VisaTypes \cup {""} : VisaTypeChange(visaType)

SpecForm == InitForm /\ [][NextForm]_vars

InitNews == InitStore(InitialSubscriptions)

(***************************************************************************)
(* Newsletter: POST /subscribe                                             *)
(***************************************************************************)
\* body(path).trim().isLength({ min: 2, max: 100 }).withMessage(..)
\*   .matches(/^[a-zA-Z\s'-]+$/).withMessage(..)
nameRules(path, name, lengthMessage, charactersMessage) ==
  Validator(isLength(Trim(name), 2, 100), path, lengthMessage, Trim(name))
  \cup Validator(matchesName(Trim(name)), path, charactersMessage, Trim(name))

\* body('email').isEmail().normalizeEmail().withMessage(..)
emailRules(email) ==
  Validator(isEmail(email), "email", "Please provide a valid email address",
            email)

\* The errors of the rules of email and name (optional).
subscriptionValidationRules(email, name) ==
  emailRules(email)
  \cup (IF name = Absent THEN {}
        ELSE nameRules("name", name,
               "Name must be between 2 and 100 characters",
               "Name can only contain letters, spaces, hyphens, and apostrophes"))

\* crypto.randomBytes(32).toString('hex'): any token; its length in
\* characters is twice the number of bytes.
TokenBytes == 32
Tokens == 1..MaxToken
HexLength(t) == IF t = 0 THEN 0 ELSE 2 * TokenBytes

\* The table without UNIQUE on email.
SubscriptionsUniqueTokenOnly(rows) ==
  \A i, j \in DOMAIN rows :
    i # j => rows[i].unsubscribe_token # rows[j].unsubscribe_token

\* UNIQUE constraints of newsletter_subscriptions, on the table as it will be.
SubscriptionsUnique(rows) ==
  \A i, j \in DOMAIN rows :
    i # j => /\ rows[i].email # rows[j].email
             /\ rows[i].unsubscribe_token # rows[j].unsubscribe_token

\* The error of a statement that would break one of them.
SubscriptionConstraint(rows) ==
  IF \E i, j \in DOMAIN rows : i # j /\ rows[i].email = rows[j].email
  THEN UniqueFailed("newsletter_subscriptions.email")
  ELSE UniqueFailed("newsletter_subscriptions.unsubscribe_token")

Subscribe(s) ==
  /\ Free(s)
  /\ \E email \in RawEmails, name \in RawNames \cup {Absent} :
       LET errors == subscriptionValidationRules(email, name)
           r == NewReq("subscribe")
       IN  reqs' = [reqs EXCEPT ![s] =
             IF errors # {}
             THEN Respond(r, handleValidationErrors(errors))
             ELSE [r EXCEPT !.pc = "getRow", !.email = normalizeEmail(email),
                            !.name = Trim(name)]]
  /\ served' = served + 1
  /\ UNCHANGED <<nodeEnv, tables, uploads, server, mailer, form>>

\* SELECT * FROM newsletter_subscriptions WHERE email = ?
SelectSubscription ==
  [table |-> "newsletter_subscriptions",
   cols |-> {"email"}]

\* Which way the handler goes on the row the SELECT returned.
subscribeBranchIgnoringActive(existingSubscription) ==
  IF existingSubscription = << >> THEN "insert" ELSE "reactivate"

subscribeBranch(existingSubscription) ==
  IF existingSubscription = << >> THEN "insert"
  ELSE IF existingSubscription[1].is_active THEN "already_subscribed"
  ELSE "reactivate"

SubscribeGetRow(s) ==
  /\ At(s, "subscribe", "getRow")
  /\ \E ioOk \in BOOLEAN :
       LET r == reqs[s]
           existingSubscription ==
             FirstRow(SelectSeq(newsletter_subscriptions,
                                LAMBDA row : row.email = r.email))
           branch == subscribeBranch(existingSubscription)
       IN  reqs' = [reqs EXCEPT ![s] =
             IF Rejected(SelectSubscription, ioOk)
             THEN catchAsync(r, SqlFailure(SelectSubscription, ioOk))
             ELSE IF branch = "already_subscribed"
             THEN Respond(r, Success(200, "already_subscribed"))
             ELSE [r EXCEPT !.pc = branch, !.found = existingSubscription]]
  /\ UNCHANGED <<nodeEnv, tables, served, uploads, server, mailer, form>>

\* The UPDATE without is_active = true.
ReactivateRowsKeepInactive(rows, email, name, token) ==
  [i \in DOMAIN rows |->
     IF rows[i].email = email
     THEN [rows[i] EXCEPT !.full_name = name, !.unsubscribe_token = token]
     ELSE rows[i]]

\* UPDATE newsletter_subscriptions SET is_active = true, full_name = ?,
\* unsubscribe_token = ? WHERE email = ?
ReactivateRows(rows, email, name, token) ==
  [i \in DOMAIN rows |->
     IF rows[i].email = email
     THEN [rows[i] EXCEPT !.is_active = TRUE, !.full_name = name,
                          !.unsubscribe_token = token]
     ELSE rows[i]]

UpdateSubscription ==
  [table |-> "newsletter_subscriptions",
   cols |-> {"is_active", "full_name", "unsubscribe_token",
     "updated_at", "email"}]

SubscribeReactivate(s) ==
  /\ At(s, "subscribe", "reactivate")
  /\ \E ioOk \in BOOLEAN, unsubscribeToken \in Tokens :
       LET r == reqs[s]
           updated == ReactivateRows(newsletter_subscriptions, r.email,
                                     r.name, unsubscribeToken)
       IN  IF Rejected(UpdateSubscription, ioOk)
           THEN /\ reqs' = [reqs EXCEPT ![s] =
                     catchAsync([r EXCEPT !.failed = @ + 1],
                                SqlFailure(UpdateSubscription, ioOk))]
                /\ UNCHANGED newsletter_subscriptions
           ELSE IF ~SubscriptionsUnique(updated)
           THEN /\ reqs' = [reqs EXCEPT ![s] =
                     catchAsync([r EXCEPT !.failed = @ + 1],
                                SubscriptionConstraint(updated))]
                /\ UNCHANGED newsletter_subscriptions
           ELSE /\ newsletter_subscriptions' = updated
                /\ reqs' = [reqs EXCEPT ![s] =
                     [r EXCEPT !.pc = "notifyReactivated", !.writes = @ + 1,
                               !.token = unsubscribeToken]]
  /\ UNCHANGED <<nodeEnv, contact_messages, feedback, visa_applications,
                 application_status_log, served, uploads, server, mailer, form>>

\* INSERT INTO newsletter_subscriptions (email, full_name,
\* unsubscribe_token, is_active, ..) VALUES (?, ?, ?, true, ..)
InsertSubscription(rows, email, name, token) ==
  Append(rows, [id |-> Len(rows) + 1, email |-> email, full_name |-> name,
                is_active |-> TRUE, unsubscribe_token |-> token])

InsertSubscriptionSql ==
  [table |-> "newsletter_subscriptions",
   cols |-> {"email", "full_name", "unsubscribe_token",
     "is_active", "created_at", "updated_at"}]

SubscribeInsert(s) ==
  /\ At(s, "subscribe", "insert")
  /\ \E ioOk \in BOOLEAN, unsubscribeToken \in Tokens,
        now \in Nows, random \in Randoms :
       LET r == reqs[s]
           subscriptionId == Identifier(<<"N", "L">>, now, random, 6)
           inserted == InsertSubscription(newsletter_subscriptions, r.email,
                                          r.name, unsubscribeToken)
       IN  IF Rejected(InsertSubscriptionSql, ioOk)
           THEN /\ reqs' = [reqs EXCEPT ![s] =
                     catchAsync([r EXCEPT !.failed = @ + 1],
                                SqlFailure(InsertSubscriptionSql, ioOk))]
                /\ UNCHANGED newsletter_subscriptions
           ELSE IF ~SubscriptionsUnique(inserted)
           THEN /\ reqs' = [reqs EXCEPT ![s] =
                     catchAsync([r EXCEPT !.failed = @ + 1],
                                SubscriptionConstraint(inserted))]
                /\ UNCHANGED newsletter_subscriptions
           ELSE /\ newsletter_subscriptions' = inserted
                /\ reqs' = [reqs EXCEPT ![s] =
                     [r EXCEPT !.pc = "notify", !.writes = @ + 1,
                               !.token = unsubscribeToken,
                               !.ident = subscriptionId]]
  /\ UNCHANGED <<nodeEnv, contact_messages, feedback, visa_applications,
                 application_status_log, served, uploads, server, mailer, form>>

\* The call outside any try block: a rejected call rejects the handler.
sendEmailUncaught(r, planned, mailOk, response) ==
  LET sent == [r EXCEPT !.mails = @ + 1, !.mailFailed = ~mailOk]
  IN  IF ~mailOk
      THEN catchAsync(sent, [statusCode |-> 0, status |-> "",
                             isOperational |-> FALSE, code |-> "",
                             message |-> "sendMail failed"])
      ELSE IF sent.mails = planned THEN Respond(sent, response) ELSE sent

\* One await sendEmail(..) inside the handler's try block, which holds
\* `planned` calls: a rejected call goes to the catch, which logs it; after
\* the try block the handler sends its success response.
sendEmail(r, planned, mailOk, response) ==
  LET sent == [r EXCEPT !.mails = @ + 1, !.mailFailed = ~mailOk]
  IN  IF ~mailOk \/ sent.mails = planned THEN Respond(sent, response) ELSE sent

\* The welcome mail to the subscriber, then the mail to the operator.
SubscribeNotify(s) ==
  /\ At(s, "subscribe", "notify")
  /\ \E mailOk \in BOOLEAN :
       reqs' = [reqs EXCEPT ![s] =
         sendEmail(reqs[s], 2, mailOk,
                   [Success(201, "subscribed") EXCEPT
                      !.data.id = reqs[s].ident])]
  /\ UNCHANGED <<nodeEnv, tables, served, uploads, server, mailer, form>>

\* The reactivation mail to the subscriber.
ReactivateNotify(s) ==
  /\ At(s, "subscribe", "notifyReactivated")
  /\ \E mailOk \in BOOLEAN :
       reqs' = [reqs EXCEPT ![s] =
         sendEmail(reqs[s], 1, mailOk, Success(200, "reactivated"))]
  /\ UNCHANGED <<nodeEnv, tables, served, uploads, server, mailer, form>>

(***************************************************************************)
(* Newsletter: POST /unsubscribe and PATCH /preferences                    *)
(***************************************************************************)
\* body('token').notEmpty().isLength({ min: 64, max: 64 }); token 0 is the
\* empty string.
unsubscribeValidationRules(token) ==
  Validator(HexLength(token) # 0, "token", "Unsubscribe token is required",
            token)
  \cup Validator(HexLength(token) >= 64 /\ HexLength(token) <= 64, "token",
                 "Invalid unsubscribe token", token)

Unsubscribe(s) ==
  /\ Free(s)
  /\ \E token \in {0} \cup Tokens :
       LET errors == unsubscribeValidationRules(token)
           r == NewReq("unsubscribe")
       IN  reqs' = [reqs EXCEPT ![s] =
             IF errors # {}
             THEN Respond(r, handleValidationErrors(errors))
             ELSE [r EXCEPT !.pc = "getRow", !.token = token]]
  /\ served' = served + 1
  /\ UNCHANGED <<nodeEnv, tables, uploads, server, mailer, form>>

\* SELECT * FROM newsletter_subscriptions
\* WHERE unsubscribe_token = ? AND status = 'active'
\* The statements after it run only if this one resolves.
SelectByToken ==
  [table |-> "newsletter_subscriptions",
   cols |-> {"unsubscribe_token", "status"}]

UnsubscribeGetRow(s) ==
  /\ At(s, "unsubscribe", "getRow")
  /\ \E ioOk \in BOOLEAN :
       LET r == reqs[s]
           subscription ==
             FirstRow(SelectSeq(newsletter_subscriptions,
                                LAMBDA row : /\ row.unsubscribe_token = r.token
                                             /\ row.status = "active"))
       IN  reqs' = [reqs EXCEPT ![s] =
             IF Rejected(SelectByToken, ioOk)
             THEN catchAsync(r, SqlFailure(SelectByToken, ioOk))
             ELSE IF subscription = << >>
             THEN catchAsync(r, AppError(400, "INVALID_TOKEN"))
             ELSE [r EXCEPT !.pc = "update", !.found = subscription]]
  /\ UNCHANGED <<nodeEnv, tables, served, uploads, server, mailer, form>>

\* body('email').isEmail().normalizeEmail(); the preferences are drawn
\* from arrays of allowed tags.
Preferences(s) ==
  /\ Free(s)
  /\ \E email \in RawEmails :
       LET errors == emailRules(email)
           r == NewReq("preferences")
       IN  reqs' = [reqs EXCEPT ![s] =
             IF errors # {}
             THEN Respond(r, handleValidationErrors(errors))
             ELSE [r EXCEPT !.pc = "getRow", !.email = normalizeEmail(email)]]
  /\ served' = served + 1
  /\ UNCHANGED <<nodeEnv, tables, uploads, server, mailer, form>>

\* SELECT * FROM newsletter_subscriptions WHERE email = ? AND status = 'active'
SelectActiveByEmail ==
  [table |-> "newsletter_subscriptions",
   cols |-> {"email", "status"}]

PreferencesGetRow(s) ==
  /\ At(s, "preferences", "getRow")
  /\ \E ioOk \in BOOLEAN :
       LET r == reqs[s]
           subscription ==
             FirstRow(SelectSeq(newsletter_subscriptions,
                                LAMBDA row : /\ row.email = r.email
                                             /\ row.status = "active"))
       IN  reqs' = [reqs EXCEPT ![s] =
             IF Rejected(SelectActiveByEmail, ioOk)
             THEN catchAsync(r, SqlFailure(SelectActiveByEmail, ioOk))
             ELSE IF subscription = << >>
             THEN catchAsync(r, AppError(404, "SUBSCRIPTION_NOT_FOUND"))
             ELSE [r EXCEPT !.pc = "update", !.found = subscription]]
  /\ UNCHANGED <<nodeEnv, tables, served, uploads, server, mailer, form>>

NextNews ==
  \E s \in Slots :
    \/ Subscribe(s)
    \/ SubscribeGetRow(s)
    \/ SubscribeReactivate(s)
    \/ SubscribeInsert(s)
    \/ SubscribeNotify(s)
    \/ ReactivateNotify(s)
    \/ Unsubscribe(s)
    \/ UnsubscribeGetRow(s)
    \/ Preferences(s)
    \/ PreferencesGetRow(s)

SpecNews == InitNews /\ [][NextNews]_vars

(***************************************************************************)
(* Contact: POST / and PATCH /messages/:contactId/status                   *)
(***************************************************************************)
\* The names contact.js binds from '../config/database'.
contactImports == {"runQuery", "getRows"}

InquiryTypes ==
  {"general", "visa_inquiry", "application_status", "technical_support",
   "complaint", "suggestion"}

contactValidationRulesNone(name, email, inquiry_type) == {}

\* The rules of name, email and inquiry_type ("" is an absent inquiry_type);
\* the other fields of the form are drawn from valid values only.
contactValidationRules(name, email, inquiry_type) ==
  nameRules("name", name, "Name must be between 2 and 100 characters",
            "Name can only contain letters, spaces, hyphens, and apostrophes")
  \cup emailRules(email)
  \cup Validator(inquiry_type = "" \/ inquiry_type \in InquiryTypes,
                 "inquiry_type", "Please select a valid inquiry type",
                 inquiry_type)

\* `${prefix}-${Date.now()}-${Math.random()...}`: any identifier.
Ids == 1..MaxId

ContactSubmit(s) ==
  /\ Free(s)
  /\ \E name \in {NameAl, NameShort}, email \in {EmailA, EmailBad},
        inquiry_type \in {"", "complaint", "other"}, contactId \in Ids :
       LET errors == contactValidationRules(name, email, inquiry_type)
           r == [NewReq("contactSubmit") EXCEPT !.body =
                   [name |-> name, email |-> email,
                    inquiry_type |-> inquiry_type]]
       IN  reqs' = [reqs EXCEPT ![s] =
             IF errors # {}
             THEN Respond(r, handleValidationErrors(errors))
             ELSE [r EXCEPT !.pc = "insert", !.name = Trim(name),
                            !.email = normalizeEmail(email),
                            !.category = IF inquiry_type = ""
                                         THEN "general" ELSE inquiry_type,
                            !.id = contactId]]
  /\ served' = served + 1
  /\ UNCHANGED <<nodeEnv, tables, uploads, server, mailer, form>>

\* INSERT INTO contact_messages (message_id, full_name, email, phone,
\* subject, message, inquiry_type, preferred_contact, status, ..)
\* VALUES (?, .., 'new', ..); message_id is UNIQUE.
InsertContact ==
  [table |-> "contact_messages",
   cols |-> {"message_id", "full_name", "email", "phone",
     "subject", "message", "inquiry_type", "preferred_contact",
     "status", "created_at", "updated_at"}]

ContactInsert(s) ==
  /\ At(s, "contactSubmit", "insert")
  /\ \E ioOk \in BOOLEAN :
       LET r == reqs[s]
       IN  IF Rejected(InsertContact, ioOk)
           THEN /\ reqs' = [reqs EXCEPT ![s] =
                     catchAsync([r EXCEPT !.failed = @ + 1],
                                SqlFailure(InsertContact, ioOk))]
                /\ UNCHANGED contact_messages
           ELSE IF \E i \in DOMAIN contact_messages :
                     contact_messages[i].message_id = r.id
           THEN /\ reqs' = [reqs EXCEPT ![s] =
                     catchAsync([r EXCEPT !.failed = @ + 1],
                                UniqueFailed("contact_messages.message_id"))]
                /\ UNCHANGED contact_messages
           ELSE /\ contact_messages' = Append(contact_messages,
                     [id |-> Len(contact_messages) + 1, message_id |-> r.id,
                      full_name |-> r.name, email |-> r.email,
                      inquiry_type |-> r.category, status |-> "new"])
                /\ reqs' = [reqs EXCEPT ![s] =
                     [r EXCEPT !.pc = "notify", !.writes = @ + 1]]
  /\ UNCHANGED <<nodeEnv, newsletter_subscriptions, feedback,
                 visa_applications, application_status_log, served, uploads, server, mailer, form>>

\* The confirmation to the submitter, then the mail to the operator.
ContactNotify(s) ==
  /\ At(s, "contactSubmit", "notify")
  /\ \E mailOk \in BOOLEAN :
       reqs' = [reqs EXCEPT ![s] =
         sendEmail(reqs[s], 2, mailOk, Success(201, "received"))]
  /\ UNCHANGED <<nodeEnv, tables, served, uploads, server, mailer, form>>

ContactStatuses == {"new", "in_progress", "resolved", "closed"}

\* body('status').isIn([..]); the notes, when given, are short enough.
contactStatusRules(status) ==
  Validator(status \in ContactStatuses, "status", "Invalid status", status)

\* The handler's first statement awaits getRow(..), a name contact.js does
\* not bind: the call throws inside the async handler, whose promise
\* rejects.  The statements after it (the 404, the UPDATE, the mail) run
\* only if the call returns.
ContactPatch(s) ==
  /\ Free(s)
  /\ \E contactId \in Ids, status \in {"in_progress", "resolved", "pending"},
        notes \in BOOLEAN :
       LET errors == contactStatusRules(status)
           r == [NewReq("contactPatch") EXCEPT !.id = contactId,
                                               !.status = status,
                                               !.notes = notes]
       IN  reqs' = [reqs EXCEPT ![s] =
             IF errors # {}
             THEN Respond(r, handleValidationErrors(errors))
             ELSE IF "getRow" \notin contactImports
             THEN catchAsync(r, ReferenceError)
             ELSE [r EXCEPT !.pc = "getRow"]]
  /\ served' = served + 1
  /\ UNCHANGED <<nodeEnv, tables, uploads, server, mailer, form>>

(***************************************************************************)
(* Feedback: POST / and PATCH /:feedbackId/status                          *)
(***************************************************************************)
\* The rules of name, email, rating and would_recommend; the other fields
\* of the form are drawn from valid values only.
feedbackValidationRules(name, email, rating, would_recommend) ==
  nameRules("name", name, "Name must be between 2 and 100 characters",
            "Name can only contain letters, spaces, hyphens, and apostrophes")
  \cup emailRules(email)
  \cup Validator(rating >= 1 /\ rating <= 5, "rating",
                 "Rating must be between 1 and 5", rating)
  \cup Validator(would_recommend \in {"yes", "no", "maybe"},
                 "would_recommend",
                 "Please specify if you would recommend our services",
                 would_recommend)

\* `FB-${Date.now()}-${Math.random().toString(36).substr(2, 6)
\*     .toUpperCase()}`: the identifiers the handler can generate.
FeedbackIds ==
  {Identifier(<<"F", "B">>, now, random, 6) : now \in Nows, random \in Randoms}

\* body is req.body as the form sent it.
FeedbackSubmit(s) ==
  /\ Free(s)
  /\ \E name \in {NameAl, NameShort}, email \in {EmailA, EmailBad},
        rating \in {0, 1, 5, 6}, would_recommend \in {"yes", "perhaps"},
        feedbackId \in FeedbackIds :
       LET errors ==
             feedbackValidationRules(name, email, rating, would_recommend)
           r == [NewReq("feedbackSubmit") EXCEPT !.body =
                   [name |-> name, email |-> email, rating |-> rating,
                    would_recommend |-> would_recommend]]
       IN  reqs' = [reqs EXCEPT ![s] =
             IF errors # {}
             THEN Respond(r, handleValidationErrors(errors))
             ELSE [r EXCEPT !.pc = "insert", !.name = Trim(name),
                            !.email = normalizeEmail(email),
                            !.rating = rating, !.category = would_recommend,
                            !.ident = feedbackId]]
  /\ served' = served + 1
  /\ UNCHANGED <<nodeEnv, tables, uploads, server, mailer, form>>

\* INSERT INTO feedback (feedback_id, full_name, email, service_rating,
\* would_recommend, feedback_title, feedback_message, status, ..)
\* VALUES (?, .., 'pending', ..); feedback_id is UNIQUE, service_rating is
\* CHECKed to lie in 1..5.
InsertFeedback ==
  [table |-> "feedback",
   cols |-> {"feedback_id", "full_name", "email",
     "service_rating", "would_recommend", "feedback_title",
     "feedback_message", "status", "created_at", "updated_at"}]

FeedbackInsert(s) ==
  /\ At(s, "feedbackSubmit", "insert")
  /\ \E ioOk \in BOOLEAN :
       LET r == reqs[s]
       IN  IF Rejected(InsertFeedback, ioOk)
           THEN /\ reqs' = [reqs EXCEPT ![s] =
                     catchAsync([r EXCEPT !.failed = @ + 1],
                                SqlFailure(InsertFeedback, ioOk))]
                /\ UNCHANGED feedback
           ELSE IF \/ \E i \in DOMAIN feedback : feedback[i].feedback_id = r.ident
                   \/ ~(r.rating >= 1 /\ r.rating <= 5)
           THEN /\ reqs' = [reqs EXCEPT ![s] =
                     catchAsync([r EXCEPT !.failed = @ + 1],
                       IF r.rating >= 1 /\ r.rating <= 5
                       THEN UniqueFailed("feedback.feedback_id")
                       ELSE SqliteError("SQLITE_CONSTRAINT",
                                        "CHECK constraint failed"))]
                /\ UNCHANGED feedback
           ELSE /\ feedback' = Append(feedback,
                     [id |-> Len(feedback) + 1, feedback_id |-> r.ident,
                      full_name |-> r.name, email |-> r.email,
                      service_rating |-> r.rating,
                      would_recommend |-> r.category, status |-> "pending"])
                /\ reqs' = [reqs EXCEPT ![s] =
                     [r EXCEPT !.pc = "notify", !.writes = @ + 1]]
  /\ UNCHANGED <<nodeEnv, newsletter_subscriptions, contact_messages,
                 visa_applications, application_status_log, served, uploads, server, mailer, form>>

FeedbackNotify(s) ==
  /\ At(s, "feedbackSubmit", "notify")
  /\ \E mailOk \in BOOLEAN :
       reqs' = [reqs EXCEPT ![s] =
         sendEmail(reqs[s], 2, mailOk,
                   [Success(201, "received") EXCEPT !.data.id = reqs[s].ident])]
  /\ UNCHANGED <<nodeEnv, tables, served, uploads, server, mailer, form>>

FeedbackStatuses == {"new", "reviewed", "responded", "closed"}

feedbackStatusRulesAny(status) == {}

feedbackStatusRules(status) ==
  Validator(status \in FeedbackStatuses, "status", "Invalid status", status)

FeedbackPatch(s) ==
  /\ Free(s)
  /\ \E feedbackId \in FeedbackIds,
        status \in {"reviewed", "responded", "pending"},
        admin_notes \in BOOLEAN :
       LET errors == feedbackStatusRules(status)
           r == [NewReq("feedbackPatch") EXCEPT !.ident = feedbackId,
                                                !.status = status,
                                                !.notes = admin_notes]
       IN  reqs' = [reqs EXCEPT ![s] =
             IF errors # {}
             THEN Respond(r, handleValidationErrors(errors))
             ELSE [r EXCEPT !.pc = "getRow"]]
  /\ served' = served + 1
  /\ UNCHANGED <<nodeEnv, tables, uploads, server, mailer, form>>

\* SELECT * FROM feedback WHERE feedback_id = ?
SelectFeedback ==
  [table |-> "feedback",
   cols |-> {"feedback_id"}]

FeedbackPatchGetRow(s) ==
  /\ At(s, "feedbackPatch", "getRow")
  /\ \E ioOk \in BOOLEAN :
       LET r == reqs[s]
           existingFeedback ==
             FirstRow(SelectSeq(feedback, LAMBDA row : row.feedback_id = r.ident))
       IN  reqs' = [reqs EXCEPT ![s] =
             IF Rejected(SelectFeedback, ioOk)
             THEN catchAsync(r, SqlFailure(SelectFeedback, ioOk))
             ELSE IF existingFeedback = << >>
             THEN catchAsync(r, AppError(404, "FEEDBACK_NOT_FOUND"))
             ELSE [r EXCEPT !.pc = "update", !.found = existingFeedback]]
  /\ UNCHANGED <<nodeEnv, tables, served, uploads, server, mailer, form>>

\* UPDATE feedback SET status = ?, admin_notes = ?, updated_at = ..
\* WHERE feedback_id = ?
\* The mail to the submitter and the 200 response follow the UPDATE.
UpdateFeedbackStatus ==
  [table |-> "feedback",
   cols |-> {"status", "admin_notes", "updated_at", "feedback_id"}]

FeedbackPatchUpdate(s) ==
  /\ At(s, "feedbackPatch", "update")
  /\ \E ioOk \in BOOLEAN :
       LET r == reqs[s]
       IN  IF Rejected(UpdateFeedbackStatus, ioOk)
           THEN /\ reqs' = [reqs EXCEPT ![s] =
                     catchAsync([r EXCEPT !.failed = @ + 1],
                                SqlFailure(UpdateFeedbackStatus, ioOk))]
                /\ UNCHANGED feedback
           ELSE /\ feedback' =
                     [i \in DOMAIN feedback |->
                        IF feedback[i].feedback_id = r.ident
                        THEN [feedback[i] EXCEPT !.status = r.status]
                        ELSE feedback[i]]
                /\ reqs' = [reqs EXCEPT ![s] =
                     IF r.status = "responded" /\ r.found[1].email # Absent
                        /\ r.notes
                     THEN [r EXCEPT !.pc = "notify", !.writes = @ + 1]
                     ELSE Respond([r EXCEPT !.writes = @ + 1],
                                  Success(200, r.status))]
  /\ UNCHANGED <<nodeEnv, newsletter_subscriptions, contact_messages,
                 visa_applications, application_status_log, served, uploads, server, mailer, form>>

(***************************************************************************)
(* Visa: POST /application                                                 *)
(***************************************************************************)
\* Dates are day numbers; BadDate is a value isISO8601() refuses, and
\* Today is the day moment() returns.
BadDate == 0 - 1
Today == 1
Days == 0..MaxDay
MaxDurationOfStay == 365

\* moment(a).isBefore(moment(b), 'day'), false when either is invalid
isBefore(a, b) == a # BadDate /\ b # BadDate /\ a < b

\* moment(a).isSameOrBefore(moment(b), 'day')
isSameOrBefore(a, b) == a # BadDate /\ b # BadDate /\ a <= b

\* The rules of duration_of_stay, arrival_date and departure_date; the
\* other fields of the form are drawn from valid values only.
visaValidationRules(duration_of_stay, arrival_date, departure_date) ==
  Validator(duration_of_stay >= 1 /\ duration_of_stay <= MaxDurationOfStay,
            "duration_of_stay",
            "Duration of stay must be between 1 and 365 days",
            duration_of_stay)
  \cup Validator(arrival_date # BadDate, "arrival_date",
                 "Please provide a valid arrival date", arrival_date)
  \cup Validator(~isBefore(arrival_date, Today), "arrival_date",
                 "Arrival date cannot be in the past", arrival_date)
  \cup Validator(departure_date # BadDate, "departure_date",
                 "Please provide a valid departure date", departure_date)
  \cup Validator(~isSameOrBefore(departure_date, arrival_date),
                 "departure_date",
                 "Departure date must be after arrival date", departure_date)

\* The MIME types fileFilter accepts for each file field.
allowedTypes ==
  [passport_copy |->
     {"image/jpeg", "image/png", "image/jpg", "application/pdf"},
   photo |-> {"image/jpeg", "image/png", "image/jpg"},
   cv |->
     {"application/pdf", "application/msword",
      "application/vnd.openxmlformats-officedocument.wordprocessingml.document"},
   additional_documents |->
     {"image/jpeg", "image/png", "image/jpg", "application/pdf",
      "application/msword",
      "application/vnd.openxmlformats-officedocument.wordprocessingml.document"}]

\* A filter that lets every file through.
fileFilterAcceptAll(file) == TRUE

\* cb(null, true) or cb(new AppError(.., 400), false)
fileFilter(file) ==
  /\ file.fieldname \in DOMAIN allowedTypes
  /\ file.mimetype \in allowedTypes[file.fieldname]

\* new AppError(`Invalid file type for ..`, 400): no code is passed.
InvalidFileType ==
  [AppError(400, "") EXCEPT !.message = "Invalid file type"]

\* The file parts of a multipart body, in the order they arrive.
File(fieldname, mimetype) == [fieldname |-> fieldname, mimetype |-> mimetype]

FileParts ==
  { <<File("passport_copy", "application/pdf"), File("photo", "image/png")>>,
    <<File("passport_copy", "application/pdf")>>,
    <<File("passport_copy", "application/pdf"),
      File("photo", "application/pdf")>>,
    <<File("photo", "image/gif"), File("passport_copy", "image/png")>> }

\* upload.fields(..): multer hands each part to fileFilter and then to
\* diskStorage; the first refused part ends the upload with the filter's
\* error.  The result is the parts written and whether one was refused.
upload(parts) ==
  LET refused == {i \in DOMAIN parts : ~fileFilter(parts[i])}
      stop == IF refused = {} THEN Len(parts) + 1
              ELSE CHOOSE i \in refused : \A j \in refused : i <= j
  IN  [written |-> {parts[i] : i \in 1..(stop - 1)},
       refused |-> refused # {}]

\* upload.fields(..), the first middleware of POST /application: a refused
\* part goes to errorHandler, otherwise the body goes on to validation.
VisaUpload(s) ==
  /\ Free(s)
  /\ \E parts \in FileParts :
       LET uploaded == upload(parts)
           r == NewReq("visaSubmit")
       IN  /\ uploads' = uploads \cup uploaded.written
           /\ reqs' = [reqs EXCEPT ![s] =
                 IF uploaded.refused
                 THEN catchAsync(
                        [r EXCEPT !.files =
                           {parts[i].fieldname : i \in DOMAIN parts}],
                        InvalidFileType)
                 ELSE [r EXCEPT !.pc = "validate", !.files =
                         {file.fieldname : file \in uploaded.written}]]
  /\ served' = served + 1
  /\ UNCHANGED <<nodeEnv, tables, server, mailer, form>>

\* visaValidationRules, handleValidationErrors, and the handler up to its
\* first await.
VisaSubmit(s) ==
  /\ At(s, "visaSubmit", "validate")
  /\ \E duration_of_stay \in {0, 1, 2, MaxDurationOfStay + 1},
        arrival_date \in Days \cup {BadDate},
        departure_date \in Days \cup {BadDate},
        applicationId \in Ids :
       LET errors == visaValidationRules(duration_of_stay, arrival_date,
                                         departure_date)
           r == reqs[s]
       IN  reqs' = [reqs EXCEPT ![s] =
             IF errors # {}
             THEN Respond(r, handleValidationErrors(errors))
             ELSE IF ~({"passport_copy", "photo"} \subseteq r.files)
             THEN catchAsync(r, AppError(400, "MISSING_REQUIRED_FILES"))
             ELSE [r EXCEPT !.pc = "insert", !.email = EmailA,
                            !.duration = duration_of_stay,
                            !.arrival = arrival_date,
                            !.departure = departure_date,
                            !.id = applicationId]]
  /\ UNCHANGED <<nodeEnv, tables, served, uploads, server, mailer, form>>

\* INSERT INTO visa_applications (application_id, .., status, ..)
\* VALUES (?, .., 'pending', ..); application_id is UNIQUE.
InsertVisa ==
  [table |-> "visa_applications",
   cols |-> {"application_id", "full_name", "email", "phone",
     "nationality", "passport_number", "visa_type",
     "purpose_of_visit", "duration_of_stay", "arrival_date",
     "departure_date", "accommodation_details",
     "sponsor_information", "previous_uae_visit",
     "criminal_record", "medical_conditions",
     "emergency_contact_name", "emergency_contact_phone",
     "emergency_contact_relationship", "passport_copy_path",
     "photo_path", "cv_path", "additional_documents_path",
     "status", "created_at", "updated_at"}]

\* A table whose application_id column is not UNIQUE.
ApplicationIdNeverTaken(rows, applicationId) == FALSE

\* application_id TEXT UNIQUE NOT NULL: the INSERT of an identifier that a
\* row already has is refused.
ApplicationIdTaken(rows, applicationId) ==
  \E i \in DOMAIN rows : rows[i].application_id = applicationId

VisaInsert(s) ==
  /\ At(s, "visaSubmit", "insert")
  /\ \E ioOk \in BOOLEAN :
       LET r == reqs[s]
       IN  IF Rejected(InsertVisa, ioOk)
           THEN /\ reqs' = [reqs EXCEPT ![s] =
                     catchAsync([r EXCEPT !.failed = @ + 1],
                                SqlFailure(InsertVisa, ioOk))]
                /\ UNCHANGED visa_applications
           ELSE IF ApplicationIdTaken(visa_applications, r.id)
           THEN /\ reqs' = [reqs EXCEPT ![s] =
                     catchAsync([r EXCEPT !.failed = @ + 1],
                                UniqueFailed("visa_applications.application_id"))]
                /\ UNCHANGED visa_applications
           ELSE /\ visa_applications' = Append(visa_applications,
                     [id |-> Len(visa_applications) + 1,
                      application_id |-> r.id, email |-> r.email,
                      duration_of_stay |-> r.duration,
                      arrival_date |-> r.arrival,
                      departure_date |-> r.departure, status |-> "pending",
                      visa_type |-> "tourist"])
                /\ reqs' = [reqs EXCEPT ![s] =
                     [r EXCEPT !.pc = "log", !.writes = @ + 1]]
  /\ UNCHANGED <<nodeEnv, newsletter_subscriptions, contact_messages,
                 feedback, application_status_log, served, uploads, server, mailer, form>>

\* INSERT INTO application_status_log (application_id, old_status,
\* new_status, notes, created_at) VALUES (?, NULL, 'pending', ..)
InsertStatusLog ==
  [table |-> "application_status_log",
   cols |-> {"application_id", "old_status", "new_status",
     "notes", "created_at"}]

VisaLog(s) ==
  /\ At(s, "visaSubmit", "log")
  /\ \E ioOk \in BOOLEAN :
       LET r == reqs[s]
       IN  IF Rejected(InsertStatusLog, ioOk)
           THEN /\ reqs' = [reqs EXCEPT ![s] =
                     catchAsync([r EXCEPT !.failed = @ + 1],
                                SqlFailure(InsertStatusLog, ioOk))]
                /\ UNCHANGED application_status_log
           ELSE /\ application_status_log' = Append(application_status_log,
                     [id |-> Len(application_status_log) + 1,
                      application_id |-> r.id, old_status |-> "",
                      new_status |-> "pending"])
                /\ reqs' = [reqs EXCEPT ![s] =
                     [r EXCEPT !.pc = "notify", !.writes = @ + 1]]
  /\ UNCHANGED <<nodeEnv, newsletter_subscriptions, contact_messages,
                 feedback, visa_applications, served, uploads, server, mailer, form>>

\* The confirmation to the applicant, then the mail to the operator.
VisaNotify(s) ==
  /\ At(s, "visaSubmit", "notify")
  /\ \E mailOk \in BOOLEAN :
       reqs' = [reqs EXCEPT ![s] =
         sendEmail(reqs[s], 2, mailOk, Success(201, "pending"))]
  /\ UNCHANGED <<nodeEnv, tables, served, uploads, server, mailer, form>>

(***************************************************************************)
(* Visa: GET /status/:applicationId                                        *)
(***************************************************************************)
VisaStatus(s) ==
  /\ Free(s)
  /\ \E applicationId \in Ids :
       reqs' = [reqs EXCEPT ![s] =
         [NewReq("visaStatus") EXCEPT !.pc = "getRow", !.id = applicationId]]
  /\ served' = served + 1
  /\ UNCHANGED <<nodeEnv, tables, uploads, server, mailer, form>>

\* SELECT application_id, full_name, email, visa_type, status, created_at,
\* updated_at, arrival_date, departure_date FROM visa_applications
\* WHERE application_id = ?
SelectApplication ==
  [table |-> "visa_applications",
   cols |-> {"application_id", "full_name", "email", "visa_type", "status",
     "created_at", "updated_at", "arrival_date", "departure_date"}]

VisaStatusGetRow(s) ==
  /\ At(s, "visaStatus", "getRow")
  /\ \E ioOk \in BOOLEAN :
       LET r == reqs[s]
           application ==
             FirstRow(SelectSeq(visa_applications,
                        LAMBDA row : row.application_id = r.id))
       IN  reqs' = [reqs EXCEPT ![s] =
             IF Rejected(SelectApplication, ioOk)
             THEN catchAsync(r, SqlFailure(SelectApplication, ioOk))
             ELSE IF application = << >>
             THEN catchAsync(r, AppError(404, "APPLICATION_NOT_FOUND"))
             ELSE [r EXCEPT !.pc = "getRows", !.found = application]]
  /\ UNCHANGED <<nodeEnv, tables, served, uploads, server, mailer, form>>

\* SELECT old_status, new_status, notes, created_at
\* FROM application_status_log WHERE application_id = ?
\* ORDER BY created_at ASC
SelectStatusHistory ==
  [table |-> "application_status_log",
   cols |-> {"old_status", "new_status", "notes", "created_at",
     "application_id"}]

\* The entries of every application.
StatusHistoryOfAll(log, applicationId) == log

\* The rows the SELECT returns: created_at is the time of the INSERT, so
\* the entries of the application come in the order the log holds them.
StatusHistory(log, applicationId) ==
  SelectSeq(log, LAMBDA entry : entry.application_id = applicationId)

\* data.application of the response, with a member the two calls differ in.
applicationProjectionStamped(application) ==
  [id |-> application.application_id, email |-> application.email,
   current_status |-> application.status,
   arrival |-> application.arrival_date,
   departure |-> application.departure_date, served |-> served]

\* data.application of the response.
applicationProjection(application) ==
  [id |-> application.application_id, email |-> application.email,
   current_status |-> application.status,
   arrival |-> application.arrival_date,
   departure |-> application.departure_date]

\* data.status_history of the response.
statusHistoryProjection(statusHistory) ==
  [i \in DOMAIN statusHistory |->
     [from |-> statusHistory[i].old_status,
      to |-> statusHistory[i].new_status]]

VisaStatusGetRows(s) ==
  /\ At(s, "visaStatus", "getRows")
  /\ \E ioOk \in BOOLEAN :
       LET r == reqs[s]
           statusHistory == StatusHistory(application_status_log, r.id)
       IN  reqs' = [reqs EXCEPT ![s] =
             IF Rejected(SelectStatusHistory, ioOk)
             THEN catchAsync(r, SqlFailure(SelectStatusHistory, ioOk))
             ELSE Respond(r, [Success(200, "") EXCEPT !.data =
                    [NoData EXCEPT
                       !.rows = <<applicationProjection(r.found[1])>>,
                       !.history = statusHistoryProjection(statusHistory)]])]
  /\ UNCHANGED <<nodeEnv, tables, served, uploads, server, mailer, form>>

(***************************************************************************)
(* The list endpoints: GET /visa/applications, GET /contact/messages,      *)
(* GET /feedback, GET /newsletter/subscriptions                            *)
(***************************************************************************)
DigitValue(c) == CASE c = "0" -> 0 [] c = "1" -> 1 [] c = "2" -> 2

\* parseInt(..) of a string of digits; the same number is what the string
\* becomes in (page - 1) * limit and in total / limit.
RECURSIVE parseInt(_)
parseInt(str) ==
  IF str = << >> THEN 0
  ELSE 10 * parseInt(SubSeq(str, 1, Len(str) - 1)) + DigitValue(str[Len(str)])

\* const { page = 1, limit = 20 } = req.query
QueryNumber(value, default) == IF value = Absent THEN default ELSE parseInt(value)

QueryNumbers == {Absent, <<"1">>, <<"2">>}

\* Math.ceil(total / limit)
Ceil(total, limit) == (total + limit - 1) \div limit

\* The rows of a table that satisfy WHERE c1 = ? AND c2 = ? ..
Where(rows, filters) ==
  SelectSeq(rows, LAMBDA row : \A f \in filters : row[f[1]] = f[2])

Reverse(rows) == [i \in DOMAIN rows |-> rows[Len(rows) - i + 1]]

\* LIMIT ? OFFSET ?
Limit(rows, limit, offset) ==
  IF offset >= Len(rows) THEN << >>
  ELSE SubSeq(rows, offset + 1,
              IF offset + limit < Len(rows) THEN offset + limit ELSE Len(rows))

\* The filters of the query string: a member that is absent or empty adds
\* no condition.
Conditions(pairs) == {f \in pairs : f[2] # ""}

\* GET /visa/applications
VisaList(s) ==
  /\ Free(s)
  /\ \E page \in QueryNumbers, limit \in QueryNumbers,
        status \in {"", "pending", "approved"},
        visa_type \in {"", "tourist"} :
       reqs' = [reqs EXCEPT ![s] =
         [NewReq("visaList") EXCEPT !.pc = "getRows", !.query =
            [NoQuery EXCEPT !.page = page, !.limit = limit,
               !.filters = Conditions({<<"status", status>>,
                                       <<"visa_type", visa_type>>})]]]
  /\ served' = served + 1
  /\ UNCHANGED <<nodeEnv, tables, uploads, server, mailer, form>>

\* SELECT application_id, full_name, email, nationality, visa_type, status,
\* created_at, arrival_date FROM visa_applications ${whereClause}
\* ORDER BY created_at DESC LIMIT ? OFFSET ?
SelectApplications(filters) ==
  [table |-> "visa_applications",
   cols |-> {"application_id", "full_name", "email", "nationality",
     "visa_type", "status", "created_at", "arrival_date"}
     \cup {f[1] : f \in filters}]

VisaListGetRows(s) ==
  /\ At(s, "visaList", "getRows")
  /\ \E ioOk \in BOOLEAN :
       LET r == reqs[s]
           limit == QueryNumber(r.query.limit, 20)
           offset == (QueryNumber(r.query.page, 1) - 1) * limit
           applications ==
             Limit(Reverse(Where(visa_applications, r.query.filters)),
                   limit, offset)
       IN  reqs' = [reqs EXCEPT ![s] =
             IF Rejected(SelectApplications(r.query.filters), ioOk)
             THEN catchAsync(r, SqlFailure(SelectApplications(r.query.filters),
                                           ioOk))
             ELSE [r EXCEPT !.pc = "count", !.found = applications]]
  /\ UNCHANGED <<nodeEnv, tables, served, uploads, server, mailer, form>>

\* SELECT COUNT(*) as total FROM visa_applications ${whereClause}
CountApplications(filters) ==
  [table |-> "visa_applications", cols |-> {f[1] : f \in filters}]

VisaListCount(s) ==
  /\ At(s, "visaList", "count")
  /\ \E ioOk \in BOOLEAN :
       LET r == reqs[s]
           total == Len(Where(visa_applications, r.query.filters))
       IN  reqs' = [reqs EXCEPT ![s] =
             IF Rejected(CountApplications(r.query.filters), ioOk)
             THEN catchAsync(r, SqlFailure(CountApplications(r.query.filters),
                                           ioOk))
             ELSE Respond(r, [Success(200, "") EXCEPT !.data =
                    [NoData EXCEPT
                       !.rows = r.found, !.total = total,
                       !.total_pages =
                         Ceil(total, QueryNumber(r.query.limit, 20))]])]
  /\ UNCHANGED <<nodeEnv, tables, served, uploads, server, mailer, form>>

\* GET /contact/messages
ContactList(s) ==
  /\ Free(s)
  /\ \E page \in QueryNumbers, limit \in QueryNumbers,
        status \in {"", "new"}, inquiry_type \in {"", "complaint"} :
       reqs' = [reqs EXCEPT ![s] =
         [NewReq("contactList") EXCEPT !.pc = "getRows", !.query =
            [NoQuery EXCEPT !.page = page, !.limit = limit,
               !.filters = Conditions({<<"status", status>>,
                                       <<"inquiry_type", inquiry_type>>})]]]
  /\ served' = served + 1
  /\ UNCHANGED <<nodeEnv, tables, uploads, server, mailer, form>>

\* SELECT message_id, full_name as name, email, phone, subject,
\* inquiry_type, status, created_at, updated_at FROM contact_messages
\* ${whereClause} ORDER BY created_at DESC LIMIT ? OFFSET ?
SelectMessages(filters) ==
  [table |-> "contact_messages",
   cols |-> {"message_id", "full_name", "email", "phone", "subject",
     "inquiry_type", "status", "created_at", "updated_at"}
     \cup {f[1] : f \in filters}]

\* After getRows returns, the handler calls getRow for the total, a name
\* contact.js does not bind.
ContactListGetRows(s) ==
  /\ At(s, "contactList", "getRows")
  /\ \E ioOk \in BOOLEAN :
       LET r == reqs[s]
           limit == QueryNumber(r.query.limit, 20)
           offset == (QueryNumber(r.query.page, 1) - 1) * limit
           messages ==
             Limit(Reverse(Where(contact_messages, r.query.filters)),
                   limit, offset)
       IN  reqs' = [reqs EXCEPT ![s] =
             IF Rejected(SelectMessages(r.query.filters), ioOk)
             THEN catchAsync(r, SqlFailure(SelectMessages(r.query.filters),
                                           ioOk))
             ELSE IF "getRow" \notin contactImports
             THEN catchAsync(r, ReferenceError)
             ELSE [r EXCEPT !.pc = "count", !.found = messages]]
  /\ UNCHANGED <<nodeEnv, tables, served, uploads, server, mailer, form>>

ASC == <<"A", "S", "C">>
DESC == <<"D", "E", "S", "C">>

\* The values of sort_by and sort_order the requests carry.
SortColumns == {"", "created_at", "name", "email", "id; DROP TABLE feedback"}
SortOrders ==
  {Absent, <<"a", "s", "c">>, <<"D", "e", "s", "c">>, <<"s", "i", "z", "e">>}

\* sort_by = 'created_at' when the query has none; a column outside the
\* list is replaced by 'created_at'.
sortColumn(validSortColumns, sort_by) ==
  LET given == IF sort_by = "" THEN "created_at" ELSE sort_by
  IN  IF given \in validSortColumns THEN given ELSE "created_at"

\* sort_order = 'desc' when the query has none; anything but asc and desc,
\* in any case, is replaced by 'DESC'.
sortDirection(sort_order) ==
  LET given == IF sort_order = Absent THEN <<"d", "e", "s", "c">>
               ELSE sort_order
  IN  IF toLowerCase(given) \in {<<"a", "s", "c">>, <<"d", "e", "s", "c">>}
      THEN toUpperCase(given) ELSE DESC

feedbackSortColumns == {"created_at", "rating", "feedback_type", "name"}

\* GET /feedback
FeedbackList(s) ==
  /\ Free(s)
  /\ \E page \in QueryNumbers, limit \in QueryNumbers,
        status \in {"", "pending"},
        sort_by \in SortColumns, sort_order \in SortOrders :
       reqs' = [reqs EXCEPT ![s] =
         [NewReq("feedbackList") EXCEPT !.pc = "getRows", !.query =
            [NoQuery EXCEPT !.page = page, !.limit = limit,
               !.filters = Conditions({<<"status", status>>}),
               !.sort_by = sort_by, !.sort_order = sort_order,
               !.order = <<sortColumn(feedbackSortColumns, sort_by),
                           sortDirection(sort_order)>>]]]
  /\ served' = served + 1
  /\ UNCHANGED <<nodeEnv, tables, uploads, server, mailer, form>>

\* SELECT feedback_id, name, email, service_used, rating, feedback_type,
\* subject, would_recommend, status, created_at, updated_at FROM feedback
\* ${whereClause} ORDER BY ${sortColumn} ${sortDirection} LIMIT ? OFFSET ?
SelectFeedbackPage(filters, order) ==
  [table |-> "feedback",
   cols |-> {"feedback_id", "name", "email", "service_used", "rating",
     "feedback_type", "subject", "would_recommend", "status", "created_at",
     "updated_at"}
     \cup {f[1] : f \in filters} \cup {order[1]}]

FeedbackListGetRows(s) ==
  /\ At(s, "feedbackList", "getRows")
  /\ \E ioOk \in BOOLEAN :
       LET r == reqs[s]
           stmt == SelectFeedbackPage(r.query.filters, r.query.order)
       IN  reqs' = [reqs EXCEPT ![s] =
             IF Rejected(stmt, ioOk)
             THEN catchAsync(r, SqlFailure(stmt, ioOk))
             ELSE [r EXCEPT !.pc = "count"]]
  /\ UNCHANGED <<nodeEnv, tables, served, uploads, server, mailer, form>>

subscriptionSortColumns == {"created_at", "updated_at", "email", "name"}

\* status = 'active' when the query has none or one outside the list.
filterStatus(status) ==
  IF status \in {"active", "unsubscribed", "all"} THEN status ELSE "active"

\* GET /newsletter/subscriptions
SubscriptionList(s) ==
  /\ Free(s)
  /\ \E page \in QueryNumbers, limit \in QueryNumbers,
        status \in {"", "all"},
        sort_by \in SortColumns, sort_order \in SortOrders :
       reqs' = [reqs EXCEPT ![s] =
         [NewReq("subscriptionList") EXCEPT !.pc = "getRows", !.query =
            [NoQuery EXCEPT !.page = page, !.limit = limit,
               !.filters = IF filterStatus(status) = "all" THEN {}
                           ELSE {<<"status", filterStatus(status)>>},
               !.sort_by = sort_by, !.sort_order = sort_order,
               !.order = <<sortColumn(subscriptionSortColumns, sort_by),
                           sortDirection(sort_order)>>]]]
  /\ served' = served + 1
  /\ UNCHANGED <<nodeEnv, tables, uploads, server, mailer, form>>

\* SELECT subscription_id, email, name, preferences, status, created_at,
\* updated_at FROM newsletter_subscriptions ${whereClause}
\* ORDER BY ${sortColumn} ${sortDirection} LIMIT ? OFFSET ?
SelectSubscriptions(filters, order) ==
  [table |-> "newsletter_subscriptions",
   cols |-> {"subscription_id", "email", "name", "preferences", "status",
     "created_at", "updated_at"}
     \cup {f[1] : f \in filters} \cup {order[1]}]

SubscriptionListGetRows(s) ==
  /\ At(s, "subscriptionList", "getRows")
  /\ \E ioOk \in BOOLEAN :
       LET r == reqs[s]
           stmt == SelectSubscriptions(r.query.filters, r.query.order)
       IN  reqs' = [reqs EXCEPT ![s] =
             IF Rejected(stmt, ioOk)
             THEN catchAsync(r, SqlFailure(stmt, ioOk))
             ELSE [r EXCEPT !.pc = "count"]]
  /\ UNCHANGED <<nodeEnv, tables, served, uploads, server, mailer, form>>

(***************************************************************************)
(* app.use('*'): a request for a route no router serves                    *)
(***************************************************************************)
UnknownRoute(s) ==
  /\ Free(s)
  /\ reqs' = [reqs EXCEPT ![s] = Respond(NewReq("unknownRoute"),
                                          EndpointNotFound)]
  /\ served' = served + 1
  /\ UNCHANGED <<nodeEnv, tables, uploads, server, mailer, form>>

(***************************************************************************)
(* Specifications.                                                         *)
(***************************************************************************)
NextContact ==
  \E s \in Slots :
    \/ ContactSubmit(s)
    \/ ContactInsert(s)
    \/ ContactNotify(s)
    \/ ContactPatch(s)

SpecContact == Init /\ [][NextContact]_vars

NextFeedback ==
  \E s \in Slots :
    \/ FeedbackSubmit(s)
    \/ FeedbackInsert(s)
    \/ FeedbackNotify(s)
    \/ FeedbackPatch(s)
    \/ FeedbackPatchGetRow(s)
    \/ FeedbackPatchUpdate(s)

SpecFeedback == Init /\ [][NextFeedback]_vars

NextVisa ==
  \E s \in Slots :
    \/ VisaUpload(s)
    \/ VisaSubmit(s)
    \/ VisaInsert(s)
    \/ VisaLog(s)
    \/ VisaNotify(s)

\* The visa router with its status endpoint.
NextVisaStatus ==
  \/ NextVisa
  \/ \E s \in Slots :
       \/ VisaStatus(s)
       \/ VisaStatusGetRow(s)
       \/ VisaStatusGetRows(s)

SpecVisaStatus == Init /\ [][NextVisaStatus]_vars

SpecVisa == Init /\ [][NextVisa]_vars

\* All routers, MaxSeqReqs requests served one after the other.
NextSeq ==
  /\ reqs[1].pc \in {"idle", "done"} => served < MaxSeqReqs
  /\ \E s \in {1} :
       \/ Subscribe(s)
       \/ SubscribeGetRow(s)
       \/ SubscribeReactivate(s)
       \/ SubscribeInsert(s)
       \/ SubscribeNotify(s)
       \/ ReactivateNotify(s)
       \/ Unsubscribe(s)
       \/ UnsubscribeGetRow(s)
       \/ Preferences(s)
       \/ PreferencesGetRow(s)
       \/ ContactSubmit(s)
       \/ ContactInsert(s)
       \/ ContactNotify(s)
       \/ ContactPatch(s)
       \/ FeedbackSubmit(s)
       \/ FeedbackInsert(s)
       \/ FeedbackNotify(s)
       \/ FeedbackPatch(s)
       \/ FeedbackPatchGetRow(s)
       \/ FeedbackPatchUpdate(s)
       \/ VisaUpload(s)
       \/ VisaSubmit(s)
       \/ VisaInsert(s)
       \/ VisaLog(s)
       \/ VisaNotify(s)
       \/ UnknownRoute(s)

SpecSeq == InitNews /\ [][NextSeq]_vars

\* The list endpoints, on a database file that holds what earlier
\* submissions stored: up to MaxId visa applications of two visa types with
\* their audit entries and files, up to two contact messages, one feedback
\* entry, and the subscriptions of InitNews.
StoredApplications ==
  UNION { { [i \in 1..n |->
               [id |-> i, application_id |-> i, email |-> EmailA,
                duration_of_stay |-> 1, arrival_date |-> Today,
                departure_date |-> Today + 1, status |-> "pending",
                visa_type |-> types[i]]] :
            types \in [1..n -> {"tourist", "business"}] } :
          n \in 0..MaxId }

StoredMessages ==
  LET row(i, inquiry_type) ==
        [id |-> i, message_id |-> i, full_name |-> NameAl, email |-> EmailA,
         inquiry_type |-> inquiry_type, status |-> "new"]
  IN  { << >>, <<row(1, "complaint")>>,
        <<row(1, "general"), row(2, "complaint")>> }

StoredFeedback ==
  { << >>,
    <<[id |-> 1,
       feedback_id |->
         Identifier(<<"F", "B">>, <<"1", "7">>,
                    <<"0", ".", "a", "1", "c", "2", "e", "s", "z">>, 6),
       full_name |-> NameAl, email |-> EmailA,
       service_rating |-> 5, would_recommend |-> "yes",
       status |-> "pending"]>> }

InitList ==
  /\ nodeEnv \in {"development", "production"}
  /\ newsletter_subscriptions \in InitialSubscriptions
  /\ contact_messages \in StoredMessages
  /\ feedback \in StoredFeedback
  /\ visa_applications \in StoredApplications
  /\ application_status_log =
       [i \in DOMAIN visa_applications |->
          [id |-> i, application_id |-> visa_applications[i].application_id,
           old_status |-> "", new_status |-> "pending"]]
  /\ reqs = [s \in Slots |-> IdleReq]
  /\ served = 0
  /\ uploads = IF visa_applications = << >> THEN {}
               ELSE {File("passport_copy", "application/pdf"),
                     File("photo", "image/png")}
  /\ server = Running
  /\ mailer = NoMailer
  /\ form = NoForm

\* One list request on each of these stores.
NextList ==
  /\ reqs[1].pc # "done"
  /\ \E s \in {1} :
       \/ VisaList(s)
       \/ VisaListGetRows(s)
       \/ VisaListCount(s)
       \/ ContactList(s)
       \/ ContactListGetRows(s)
       \/ FeedbackList(s)
       \/ FeedbackListGetRows(s)
       \/ SubscriptionList(s)
       \/ SubscriptionListGetRows(s)

SpecList == InitList /\ [][NextList]_vars

\* All routers, the requests served concurrently.
Next == NextNews \/ NextContact \/ NextFeedback \/ NextVisa

Spec == Init /\ [][Next]_vars

(***************************************************************************)
(* Properties.                                                             *)
(***************************************************************************)
\* C1: the store holds at most one newsletter_subscriptions row per email
\* address, whatever requests ran and however they interleaved.
OneRowPerEmail ==
  \A i, j \in DOMAIN newsletter_subscriptions :
    newsletter_subscriptions[i].email = newsletter_subscriptions[j].email
      => i = j

\* C1 witness: two subscribe requests for one address ran concurrently, one
\* inserted the row and the other's INSERT was refused by the constraint.
OneRowPerEmailWitness ==
  /\ Len(newsletter_subscriptions) = 1
  /\ \E s, t \in Slots :
       /\ s # t
       /\ reqs[s].op = "subscribe" /\ reqs[t].op = "subscribe"
       /\ reqs[s].email = reqs[t].email
       /\ newsletter_subscriptions[1].email = reqs[s].email
       /\ reqs[s].writes = 1 /\ reqs[s].res.outcome = "subscribed"
       /\ reqs[t].pc = "done" /\ reqs[t].failed = 1
       /\ reqs[t].handled =
            "UNIQUE constraint failed: newsletter_subscriptions.email"

\* A finished request of slot s.
Done(s) == reqs[s].pc = "done"

\* Slot s takes a step of the request it runs.
Steps(s) == reqs[s].pc \notin {"idle", "done"} /\ reqs'[s] # reqs[s]

SubmitOps == {"subscribe", "contactSubmit", "feedbackSubmit", "visaSubmit"}
PatchOps == {"contactPatch", "feedbackPatch"}

\* C2: the subscribe request whose INSERT loses against a concurrent INSERT
\* of the same address ends with a 4xx outcome, never with a 5xx failure.
LosingSubscriberGetsClientError ==
  \A s \in Slots :
    ( /\ Done(s) /\ reqs[s].op = "subscribe"
      /\ reqs[s].handled =
           "UNIQUE constraint failed: newsletter_subscriptions.email" )
    => reqs[s].res.code \in 400..499

\* C3: every visa_applications row has departure_date after arrival_date
\* and duration_of_stay equal to the days between them.
AcceptedVisaDatesConsistent ==
  \A i \in DOMAIN visa_applications :
    LET row == visa_applications[i]
    IN  /\ row.departure_date > row.arrival_date
        /\ row.duration_of_stay = row.departure_date - row.arrival_date

\* C4: a request whose notification failed after its store write still
\* ends with the success response, no error of it reaches errorHandler,
\* and the step in which sendEmail is called leaves every table as it is.
NotificationFailureSwallowed ==
  /\ [](\A s \in Slots :
          reqs[s].mailFailed =>
            /\ reqs[s].writes >= 1
            /\ Done(s)
            /\ reqs[s].res.status = "success"
            /\ reqs[s].res.code \in {200, 201}
            /\ reqs[s].handled = "")
  /\ [][\A s \in Slots :
          (Steps(s) /\ reqs'[s].mails > reqs[s].mails) => UNCHANGED tables]_vars

\* C4 witness: a contact submission was stored, its first mail failed, and
\* the answer is 201.
NotificationFailureSwallowedWitness ==
  \E s \in Slots :
    /\ Done(s) /\ reqs[s].op = "contactSubmit"
    /\ reqs[s].mailFailed /\ reqs[s].mails = 1 /\ reqs[s].writes = 1
    /\ reqs[s].res.code = 201
    /\ \E i \in DOMAIN contact_messages :
         contact_messages[i].message_id = reqs[s].id

\* C5: when the SELECT of a subscribe request returns an active row, the
\* request ends with outcome already_subscribed and the table is unchanged.
AlreadySubscribedLeavesRow ==
  [][\A s \in Slots :
       ( /\ At(s, "subscribe", "getRow") /\ Steps(s)
         /\ reqs'[s].handled = ""
         /\ \E i \in DOMAIN newsletter_subscriptions :
              /\ newsletter_subscriptions[i].email = reqs[s].email
              /\ newsletter_subscriptions[i].is_active )
       => /\ reqs'[s].pc = "done"
          /\ reqs'[s].res.code = 200
          /\ reqs'[s].res.outcome = "already_subscribed"
          /\ reqs'[s].writes = 0 /\ reqs'[s].failed = 0
          /\ newsletter_subscriptions' = newsletter_subscriptions]_vars

\* C5 witness: a request was answered already_subscribed for an address
\* whose row is active.
AlreadySubscribedWitness ==
  \E s \in Slots :
    /\ Done(s) /\ reqs[s].res.outcome = "already_subscribed"
    /\ \E i \in DOMAIN newsletter_subscriptions :
         /\ newsletter_subscriptions[i].email = reqs[s].email
         /\ newsletter_subscriptions[i].is_active

\* The rows of an address.
RowsOf(rows, email) == {i \in DOMAIN rows : rows[i].email = email}

\* C6: a subscribe request whose SELECT returned an inactive row goes to the
\* UPDATE; when the UPDATE succeeds the address still has one row, with the
\* identifier it had, now active; and the request ends with outcome
\* reactivated.
ReactivationKeepsRow ==
  [][\A s \in Slots :
       /\ ( /\ At(s, "subscribe", "getRow") /\ Steps(s)
            /\ reqs'[s].handled = ""
            /\ \E i \in DOMAIN newsletter_subscriptions :
                 /\ newsletter_subscriptions[i].email = reqs[s].email
                 /\ ~newsletter_subscriptions[i].is_active )
          => reqs'[s].pc = "reactivate"
       /\ ( /\ At(s, "subscribe", "reactivate") /\ Steps(s)
            /\ reqs'[s].writes = reqs[s].writes + 1 )
          => /\ Len(newsletter_subscriptions') = Len(newsletter_subscriptions)
             /\ RowsOf(newsletter_subscriptions', reqs[s].email)
                  = RowsOf(newsletter_subscriptions, reqs[s].email)
             /\ Cardinality(RowsOf(newsletter_subscriptions', reqs[s].email))
                  = 1
             /\ \A i \in RowsOf(newsletter_subscriptions', reqs[s].email) :
                  /\ newsletter_subscriptions'[i].is_active
                  /\ newsletter_subscriptions'[i].id
                       = newsletter_subscriptions[i].id
             /\ reqs'[s].pc = "notifyReactivated"
       /\ (At(s, "subscribe", "notifyReactivated") /\ Steps(s))
          => /\ reqs'[s].pc = "done"
             /\ reqs'[s].res.code = 200
             /\ reqs'[s].res.outcome = "reactivated"]_vars

\* C6 witness: a request was answered reactivated and the row that was
\* inactive when the process started is active, with its identifier.
ReactivationWitness ==
  \E s \in Slots :
    /\ Done(s) /\ reqs[s].res.outcome = "reactivated"
    /\ reqs[s].email = EmailA
    /\ Len(newsletter_subscriptions) = 1
    /\ newsletter_subscriptions[1].id = 1
    /\ newsletter_subscriptions[1].is_active

\* The statuses a kind's PATCH accepts.
AllowedStatuses(op) ==
  IF op = "contactPatch" THEN ContactStatuses ELSE FeedbackStatuses

\* The identifier a PATCH request names.
Named(r) == IF r.op = "contactPatch" THEN r.id ELSE r.ident

\* The record a PATCH request names exists.
Known(op, id) ==
  IF op = "contactPatch"
  THEN \E i \in DOMAIN contact_messages : contact_messages[i].message_id = id
  ELSE \E i \in DOMAIN feedback : feedback[i].feedback_id = id

\* C7: a PATCH request whose status is outside the kind's enumeration is
\* answered 400, attempts no store write and sends no notification, and
\* the step that handles it leaves every table as it is.
InvalidStatusRejected ==
  /\ [](\A s \in Slots :
          ( /\ reqs[s].op \in PatchOps
            /\ reqs[s].status \notin AllowedStatuses(reqs[s].op) )
          => /\ Done(s)
             /\ reqs[s].res.code = 400
             /\ reqs[s].res.errcode = "VALIDATION_ERROR"
             /\ reqs[s].writes = 0 /\ reqs[s].failed = 0
             /\ reqs[s].mails = 0)
  /\ [][\A s \in Slots :
          ( /\ reqs'[s] # reqs[s]
            /\ reqs'[s].op \in PatchOps
            /\ reqs'[s].status \notin AllowedStatuses(reqs'[s].op) )
          => UNCHANGED tables]_vars

\* C7 witness: a PATCH with status 'pending' for an existing feedback entry
\* was answered 400.
InvalidStatusRejectedWitness ==
  \E s \in Slots :
    /\ Done(s) /\ reqs[s].op = "feedbackPatch"
    /\ reqs[s].status = "pending"
    /\ Known("feedbackPatch", reqs[s].ident)
    /\ reqs[s].res.code = 400

\* The status of the record a PATCH request names.
StatusOf(op, id) ==
  IF op = "contactPatch"
  THEN {contact_messages[i].status :
          i \in {j \in DOMAIN contact_messages :
                   contact_messages[j].message_id = id}}
  ELSE {feedback[i].status :
          i \in {j \in DOMAIN feedback : feedback[j].feedback_id = id}}

\* C8: a PATCH request with an allowed status, the store being readable and
\* writable, is answered 404 without a write when the identifier is unknown,
\* and 200 with the record's status set to the requested one when it exists.
PatchAnswers404Or200 ==
  \A s \in Slots :
    ( /\ Done(s) /\ reqs[s].op \in PatchOps
      /\ reqs[s].status \in AllowedStatuses(reqs[s].op)
      /\ reqs[s].handled # "disk I/O error" )
    => IF Known(reqs[s].op, Named(reqs[s]))
       THEN /\ reqs[s].res.code = 200
            /\ StatusOf(reqs[s].op, Named(reqs[s])) = {reqs[s].status}
       ELSE reqs[s].res.code = 404 /\ reqs[s].writes = 0

\* The fields of a stored row pass the rules of its form.
ValidText(name, email) ==
  /\ isLength(name, 2, 100) /\ matchesName(name)
  /\ isEmail(email)

\* C9: validate, persist, notify, respond.  A request answered with a
\* validation error attempted no store write and no notification, so no
\* stored row fails the rules of its form; a notification is attempted
\* only after the request's inserts succeeded; and the 201 follows them.
SubmitOrder ==
  /\ \A s \in Slots :
       reqs[s].op \in SubmitOps =>
         /\ reqs[s].res.errcode = "VALIDATION_ERROR"
              => reqs[s].writes = 0 /\ reqs[s].failed = 0 /\ reqs[s].mails = 0
         /\ reqs[s].mails > 0
              => /\ reqs[s].failed = 0
                 /\ reqs[s].writes = IF reqs[s].op = "visaSubmit" THEN 2 ELSE 1
         /\ reqs[s].res.code = 201 => reqs[s].mails > 0
  /\ \A i \in DOMAIN contact_messages :
       /\ ValidText(contact_messages[i].full_name, contact_messages[i].email)
       /\ contact_messages[i].inquiry_type \in InquiryTypes
  /\ \A i \in DOMAIN feedback :
       /\ ValidText(feedback[i].full_name, feedback[i].email)
       /\ feedback[i].service_rating \in 1..5
       /\ feedback[i].would_recommend \in {"yes", "no", "maybe"}
  /\ \A i \in DOMAIN newsletter_subscriptions :
       isEmail(newsletter_subscriptions[i].email)
  /\ \A i \in DOMAIN visa_applications :
       /\ visa_applications[i].duration_of_stay \in 1..MaxDurationOfStay
       /\ visa_applications[i].arrival_date >= Today
       /\ visa_applications[i].departure_date
            > visa_applications[i].arrival_date

\* C9 witness: a contact message was stored and notified, and the next
\* contact submission failed validation and stored nothing.
SubmitOrderWitness ==
  \E s \in Slots :
    /\ Done(s) /\ reqs[s].op = "contactSubmit"
    /\ reqs[s].res.errcode = "VALIDATION_ERROR"
    /\ reqs[s].writes = 0 /\ reqs[s].mails = 0
    /\ Len(contact_messages) = 1
    /\ served = 2

\* C10: a request one of whose store writes failed ends at once with a 5xx
\* response: no success response, no second attempt, no notification.
WriteFailureIsFatal ==
  \A s \in Slots :
    reqs[s].failed >= 1 =>
      /\ Done(s)
      /\ reqs[s].failed = 1
      /\ reqs[s].res.code \in 500..599
      /\ reqs[s].res.status # "success"
      /\ reqs[s].mails = 0

\* C10 witness: the INSERT of a contact message was refused by the UNIQUE
\* constraint of message_id and the request was answered 500.
WriteFailureIsFatalWitness ==
  \E s \in Slots :
    /\ Done(s) /\ reqs[s].op = "contactSubmit"
    /\ reqs[s].failed = 1
    /\ reqs[s].handled = "UNIQUE constraint failed: contact_messages.message_id"
    /\ reqs[s].res.code = 500
    /\ Len(contact_messages) = 1

\* A visa submission that came without the passport copy or the photo.
LacksRequiredFile(r) ==
  r.op = "visaSubmit" /\ ~({"passport_copy", "photo"} \subseteq r.files)

LogOf(applicationId) ==
  {i \in DOMAIN application_status_log :
     application_status_log[i].application_id = applicationId}

\* C12: a visa submission answered 201 has its row, with status 'pending',
\* and exactly one audit entry, from NULL to 'pending'; no application has
\* a second entry towards 'pending', and no step changes the status of a
\* row that exists or the entries the log holds.
PendingOnlyAtCreation ==
  /\ [](\A s \in Slots :
          ( /\ Done(s) /\ reqs[s].op = "visaSubmit"
            /\ reqs[s].res.code = 201 )
          => /\ reqs[s].res.outcome = "pending"
             /\ \E i \in DOMAIN visa_applications :
                  /\ visa_applications[i].application_id = reqs[s].id
                  /\ visa_applications[i].status = "pending"
             /\ Cardinality(LogOf(reqs[s].id)) = 1
             /\ \A i \in LogOf(reqs[s].id) :
                  /\ application_status_log[i].old_status = ""
                  /\ application_status_log[i].new_status = "pending")
  /\ [](\A i \in DOMAIN application_status_log :
          application_status_log[i].new_status = "pending"
          => /\ application_status_log[i].old_status = ""
             /\ \A j \in LogOf(application_status_log[i].application_id) :
                  j >= i)
  /\ [][/\ \A i \in DOMAIN visa_applications :
             /\ i \in DOMAIN visa_applications'
             /\ visa_applications'[i] = visa_applications[i]
        /\ \A i \in DOMAIN application_status_log :
             /\ i \in DOMAIN application_status_log'
             /\ application_status_log'[i] = application_status_log[i]]_vars

\* C12 witness: a submission was answered 201, its row is 'pending' and
\* the log holds its initial entry.
PendingOnlyAtCreationWitness ==
  \E s \in Slots :
    /\ Done(s) /\ reqs[s].op = "visaSubmit" /\ reqs[s].res.code = 201
    /\ reqs[s].writes = 2
    /\ \E i \in DOMAIN visa_applications :
         /\ visa_applications[i].application_id = reqs[s].id
         /\ visa_applications[i].status = "pending"
    /\ \E i \in LogOf(reqs[s].id) :
         application_status_log[i].new_status = "pending"

\* Slot s holds the finished getStatus call for an application, answered
\* 200.
StatusAnswered(s, applicationId) ==
  /\ Done(s) /\ reqs[s].op = "visaStatus"
  /\ reqs[s].id = applicationId
  /\ reqs[s].res.code = 200

\* C13: two getStatus calls for one application return the same projection
\* and the same history when nothing was written to the application or its
\* audit log between them, and no step of a getStatus call changes the
\* store.  (A row is never modified and the log only grows, so nothing was
\* written between two calls exactly when their histories are equally
\* long.)
GetStatusIdempotent ==
  /\ [](\A s, t \in Slots : \A applicationId \in Ids :
          ( /\ StatusAnswered(s, applicationId)
            /\ StatusAnswered(t, applicationId)
            /\ Len(reqs[s].res.data.history) = Len(reqs[t].res.data.history) )
          => reqs[s].res = reqs[t].res)
  /\ [][\A s \in Slots :
          (reqs'[s] # reqs[s] /\ reqs'[s].op = "visaStatus")
          => UNCHANGED <<tables, uploads, server, mailer, form>>]_vars

\* C13 witness: two calls for one application, both made after its audit
\* entry was written, were answered 200 with the same body.
GetStatusIdempotentWitness ==
  \E s, t \in Slots :
    /\ s # t
    /\ StatusAnswered(s, reqs[s].id) /\ StatusAnswered(t, reqs[s].id)
    /\ Len(reqs[s].res.data.history) = 1
    /\ Len(reqs[t].res.data.history) = 1
    /\ reqs[s].res.data = reqs[t].res.data

\* The k-th audit entry of an application, in the order of the log.
LogEntry(applicationId, k) ==
  application_status_log[
    CHOOSE i \in LogOf(applicationId) :
      Cardinality({j \in LogOf(applicationId) : j <= i}) = k]

\* C14: the step that answers a getStatus call with 200 returns the status
\* the application's row has and the audit entries of that application,
\* all of them and no other, in the order they were appended; the lookup
\* of an identifier no row has is answered 404 APPLICATION_NOT_FOUND.
GetStatusReturnsTrail ==
  [][\A s \in Slots :
       /\ ( /\ At(s, "visaStatus", "getRows") /\ Steps(s)
            /\ reqs'[s].res.code = 200 )
          => LET data == reqs'[s].res.data
                 applicationId == reqs[s].id
             IN  /\ Len(data.rows) = 1
                 /\ data.rows[1].id = applicationId
                 /\ \E i \in DOMAIN visa_applications :
                      /\ visa_applications[i].application_id = applicationId
                      /\ visa_applications[i].status
                           = data.rows[1].current_status
                 /\ Len(data.history) = Cardinality(LogOf(applicationId))
                 /\ \A k \in DOMAIN data.history :
                      /\ data.history[k].from
                           = LogEntry(applicationId, k).old_status
                      /\ data.history[k].to
                           = LogEntry(applicationId, k).new_status
       /\ ( /\ At(s, "visaStatus", "getRow") /\ Steps(s)
            /\ reqs'[s].handled # "disk I/O error" )
          => IF \E i \in DOMAIN visa_applications :
                  visa_applications[i].application_id = reqs[s].id
             THEN reqs'[s].pc = "getRows"
             ELSE /\ reqs'[s].pc = "done"
                  /\ reqs'[s].res.code = 404
                  /\ reqs'[s].res.errcode = "APPLICATION_NOT_FOUND"]_vars

\* C14 witness: the log holds the entries of two applications and a call
\* for one of them was answered with its one entry.
GetStatusReturnsTrailWitness ==
  \E s \in Slots :
    /\ StatusAnswered(s, reqs[s].id)
    /\ Len(application_status_log) = 2
    /\ Len(reqs[s].res.data.history) = 1
    /\ reqs[s].res.data.history[1].to = "pending"
    /\ reqs[s].res.data.rows[1].current_status = "pending"

\* The table a list endpoint reads.
ListTable(op) ==
  CASE op = "visaList" -> visa_applications
    [] op = "contactList" -> contact_messages
    [] OTHER -> feedback

IoFailed(r) == r.handled = "disk I/O error"

\* C15: a visa, contact or feedback list request with page >= 1 and
\* limit >= 1 that the store serves is answered 200 with a page of at most
\* limit records, each matching every filter of the request, with total the
\* number of records that match the filters and total_pages equal to
\* ceil(total / limit).
ListPageMatchesQuery ==
  \A s \in Slots :
    LET r == reqs[s]
        limit == QueryNumber(r.query.limit, 20)
        page == QueryNumber(r.query.page, 1)
        data == r.res.data
    IN  ( /\ r.op \in {"visaList", "contactList", "feedbackList"}
          /\ r.pc = "done"
          /\ page >= 1 /\ limit >= 1
          /\ ~IoFailed(r) )
        => /\ r.res.code = 200
           /\ Len(data.rows) <= limit
           /\ \A i \in DOMAIN data.rows : \A f \in r.query.filters :
                data.rows[i][f[1]] = f[2]
           /\ data.total = Len(Where(ListTable(r.op), r.query.filters))
           /\ data.total_pages = Ceil(data.total, limit)

\* C16: a feedback or subscription list request whose sort column is not
\* in the endpoint's allow-list, and that the store serves, is answered 200
\* with ORDER BY created_at DESC whatever its sort_order; and the ORDER BY
\* of every list request names an allow-listed column and ASC or DESC.
SortColumnsOf(op) ==
  IF op = "feedbackList" THEN feedbackSortColumns ELSE subscriptionSortColumns

UnlistedSortFallsBack ==
  \A s \in Slots :
    LET r == reqs[s]
    IN  /\ ( /\ r.op \in {"feedbackList", "subscriptionList"}
             /\ r.pc = "done"
             /\ r.query.sort_by \notin SortColumnsOf(r.op)
             /\ ~IoFailed(r) )
           => /\ r.res.code = 200
              /\ r.query.order = <<"created_at", DESC>>
        /\ r.op \in {"feedbackList", "subscriptionList"}
           => /\ r.query.order[1] \in SortColumnsOf(r.op)
              /\ r.query.order[2] \in {ASC, DESC}

DecimalDigits == {"0", "1", "2", "3", "4", "5", "6", "7", "8", "9"}

Base36Upper ==
  DecimalDigits \cup
  {"A", "B", "C", "D", "E", "F", "G", "H", "I", "J", "K", "L", "M", "N", "O",
   "P", "Q", "R", "S", "T", "U", "V", "W", "X", "Y", "Z"}

\* prefix, "-", one decimal digit or more, "-", one upper-case base-36
\* digit or more.
WellFormedIdentifier(prefix, id) ==
  LET dashes == {i \in DOMAIN id : id[i] = "-"}
  IN  /\ Cardinality(dashes) = 2
      /\ LET d1 == CHOOSE i \in dashes : \A j \in dashes : i <= j
             d2 == CHOOSE i \in dashes : \A j \in dashes : j <= i
         IN  /\ SubSeq(id, 1, d1 - 1) = prefix
             /\ d2 > d1 + 1
             /\ \A i \in (d1 + 1)..(d2 - 1) : id[i] \in DecimalDigits
             /\ d2 < Len(id)
             /\ \A i \in (d2 + 1)..Len(id) : id[i] \in Base36Upper

Subscribed(s) ==
  reqs[s].op = "subscribe" /\ reqs[s].pc = "done" /\ reqs[s].res.code = 201

\* C17: the identifier a successful new subscription returns is NL-, the
\* epoch millis, "-" and a non-empty upper-case base-36 suffix, and two
\* successful subscriptions return distinct identifiers, also within one
\* millisecond.
SubscriptionIdsWellFormedAndDistinct ==
  \A s, t \in Slots :
    Subscribed(s)
    => /\ WellFormedIdentifier(<<"N", "L">>, reqs[s].res.data.id)
       /\ (s # t /\ Subscribed(t))
          => reqs[s].res.data.id # reqs[t].res.data.id

\* Whether a field of a contact form satisfies the rules of its chain.
ContactFieldValid(body, field) ==
  CASE field = "name" ->
         isLength(Trim(body.name), 2, 100) /\ matchesName(Trim(body.name))
    [] field = "email" -> isEmail(body.email)
    [] field = "inquiry_type" ->
         body.inquiry_type = "" \/ body.inquiry_type \in InquiryTypes

ContactViolated(body) ==
  {field \in {"name", "email", "inquiry_type"} :
     ~ContactFieldValid(body, field)}

\* The value of a field as its validators saw it.
ContactValue(body, field) ==
  IF field = "name" THEN Trim(body.name) ELSE body[field]

HardenedErrorsCoded ==
  nodeEnv # "development"
  => \A s \in Slots :
       (reqs[s].pc = "done" /\ reqs[s].res.code >= 400)
       => /\ reqs[s].res.errcode # ""
          /\ reqs[s].res.message # ""
          /\ ~reqs[s].res.stack

\* C20: a submission answered 201 attempted two notifications, one to the
\* submitter and one to the operator address, the second also when the
\* first failed.
BothNotificationsAttempted ==
  \A s \in Slots :
    (reqs[s].op \in SubmitOps /\ reqs[s].pc = "done" /\ reqs[s].res.code = 201)
    => reqs[s].mails = 2

\* The status after which a kind's PATCH notifies the submitter.
TerminalStatus(op) == IF op = "contactPatch" THEN "resolved" ELSE "responded"

\* C21: a PATCH that names an existing record, whose store calls are
\* served, attempts one notification to the submitter after a status write
\* when its status is 'resolved' (contact) or 'responded' (feedback), with
\* or without notes, and attempts none for every other status.
TerminalStatusNotifies ==
  \A s \in Slots :
    LET r == reqs[s]
    IN  ( /\ Done(s) /\ r.op \in PatchOps
          /\ r.status \in AllowedStatuses(r.op)
          /\ Known(r.op, Named(r))
          /\ r.handled # "disk I/O error" )
        => IF r.status = TerminalStatus(r.op)
           THEN r.writes = 1 /\ r.mails = 1
           ELSE r.mails = 0

\* C22: every stored feedback entry has a rating in 1..5; a feedback form
\* whose rating is outside 1..5 is answered 400 VALIDATION_ERROR with an
\* entry for 'rating' and attempts no store write; and a form with rating 5,
\* would_recommend 'yes' and valid name and email, whose INSERT the store
\* accepts, is answered 201 with an identifier FB-<digits>-<A-Z0-9>+.
FeedbackRatingContract ==
  /\ \A i \in DOMAIN feedback : feedback[i].service_rating \in 1..5
  /\ \A s \in Slots :
       LET r == reqs[s]
       IN  (r.op = "feedbackSubmit" /\ Done(s))
           => /\ r.body.rating \notin 1..5
                 => /\ r.res.code = 400
                    /\ r.res.errcode = "VALIDATION_ERROR"
                    /\ \E entry \in r.res.errors : entry.field = "rating"
                    /\ r.writes = 0 /\ r.failed = 0
              /\ ( /\ r.body.rating = 5 /\ r.body.would_recommend = "yes"
                   /\ ValidText(Trim(r.body.name), r.body.email)
                   /\ r.handled = "" )
                 => /\ r.res.code = 201
                    /\ WellFormedIdentifier(<<"F", "B">>, r.res.data.id)

\* C25: whenever no submission stands between its two INSERTs, every visa
\* application has an audit entry and the last entry appended for it names
\* the application's status; and no step modifies or removes an entry of
\* the audit log.
EveryApplicationAudited ==
  /\ []((\A s \in Slots : ~At(s, "visaSubmit", "log"))
        => \A i \in DOMAIN visa_applications :
             LET entries == LogOf(visa_applications[i].application_id)
             IN  /\ entries # {}
                 /\ \A last \in entries :
                      (\A j \in entries : j <= last)
                      => application_status_log[last].new_status
                           = visa_applications[i].status)
  /\ [][\A i \in DOMAIN application_status_log :
          /\ i \in DOMAIN application_status_log'
          /\ application_status_log'[i] = application_status_log[i]]_vars

\* The subscriptions that hold the token and are active.
ActiveWithToken(token) ==
  {i \in DOMAIN newsletter_subscriptions :
     /\ newsletter_subscriptions[i].unsubscribe_token = token
     /\ newsletter_subscriptions[i].is_active}

\* C26: an unsubscribe request that presents the token of an active
\* subscription succeeds unless the store has an I/O failure, and after a
\* successful unsubscribe the subscription row still exists and is
\* inactive, so that the next subscribe request for its email is answered
\* 'reactivated' and not 'already_subscribed'.
UnsubscribeDeactivates ==
  /\ [](\A s \in Slots :
          ( /\ reqs[s].op = "unsubscribe"
            /\ reqs[s].pc = "done"
            /\ reqs[s].res.code = 200 )
          => \E i \in DOMAIN newsletter_subscriptions :
               /\ newsletter_subscriptions[i].unsubscribe_token = reqs[s].token
               /\ ~newsletter_subscriptions[i].is_active)
  /\ [][\A s \in Slots :
          ( /\ At(s, "unsubscribe", "getRow")
            /\ ActiveWithToken(reqs[s].token) # {}
            /\ reqs'[s].pc = "done" )
          => IoFailed(reqs'[s])]_vars

\* C27: every contact message has a status among those its status update
\* accepts, and every feedback entry has a status among those its status
\* update accepts.
StatusesWithinUpdateSets ==
  /\ \A i \in DOMAIN contact_messages :
       contact_messages[i].status \in ContactStatuses
  /\ \A i \in DOMAIN feedback : feedback[i].status \in FeedbackStatuses

\* C23: the server process opens the store handle exactly once at startup,
\* creating the tables keeps every table the file already held together
\* with its rows, and a process that exits on SIGTERM or SIGINT has closed
\* the handle exactly once.
HandleOpenedOnceClosedOnce ==
  /\ [](server.main = "server"
        => /\ server.opened <= 1
           /\ server.phase \in {"init", "listening"} => server.opened = 1)
  /\ [][ /\ server.schema \subseteq server'.schema
         /\ tables' = tables ]_vars
  /\ [](( /\ server.main = "server"
          /\ server.phase = "exited"
          /\ server.signal \in {"SIGTERM", "SIGINT"} )
        => server.closed = 1)

\* C29: the server listens only once the handle is open and all five
\* CREATE TABLE statements have completed, so every store operation a
\* request handler invokes finds the handle open; and a store operation
\* invoked while the handle is null returns a promise rejected with
\* 'Database not initialized'.
ListensAfterInitialized ==
  /\ server.phase = "listening"
     => /\ server.db = "open"
        /\ server.queued = {}
        /\ server.completed = Cardinality(TableNames)
        /\ server.schema = TableNames
  /\ server.call.caller = "handler" => server.call.handle = "open"
  /\ ( /\ server.call.op \in StoreOps
       /\ server.call.handle = "null" )
     => /\ server.call.result = "rejected"
        /\ Head(server.call.message) = "Database not initialized"

\* A store operation was invoked after the handle was opened and closed
\* again, and was rejected.
ListensAfterInitializedWitness ==
  /\ server.opened = 1
  /\ server.closed = 1
  /\ server.call.op = "getRows"
  /\ server.call.handle = "null"
  /\ server.call.result = "rejected"

\* The sections shown for a visa type.
Shown(visaType) ==
  {dependentFields(visaType)[i] : i \in DOMAIN dependentFields(visaType)}

\* C30: once setupDependentFields has run, after any sequence of
\* handleVisaTypeChange calls the input of every section shown for the
\* selected visa type is required if it was required when the form loaded,
\* and the input of no hidden section is required.
RequiredFollowsVisaType ==
  form.ready
  => \A sel \in Sections :
       IF sel \in Shown(form.value)
       THEN form.atLoad[sel] => form.required[sel]
       ELSE ~form.required[sel]

\* The call in slot c begins in this step.
Begins(c) ==
  /\ mailer.calls[c].pc \in {"idle", "done"}
  /\ mailer'.calls[c].pc # "idle"
  /\ mailer'.calls[c].read = ""
  /\ ~mailer'.calls[c].threw

\* C24: the cache maps a name only to the template compiled from the file
\* of that name and keeps it; a call that names a template the cache holds
\* returns the cached template without reading the file, whatever calls
\* are reading files at that moment.
CachedTemplateServesLaterSends ==
  /\ [](\A n \in TemplateNames :
          mailer.templateCache[n] \in {NoTemplate, FileTemplate(n)})
  /\ [][\A n \in TemplateNames :
          mailer.templateCache[n] # NoTemplate
          => mailer'.templateCache[n] = mailer.templateCache[n]]_vars
  /\ [][\A c \in Slots :
          ( /\ Begins(c)
            /\ mailer.templateCache[mailer'.calls[c].template] # NoTemplate )
          => /\ mailer'.calls[c].pc \in {"sendMail", "done"}
             /\ mailer'.calls[c].hit
             /\ mailer'.calls[c].html =
                  mailer.templateCache[mailer'.calls[c].template]]_vars

\* A call read the file of a template and stored it, and a send of the
\* same template that began later was served from the cache.
CachedTemplateServesLaterSendsWitness ==
  \E c, d \in Slots :
    /\ mailer.calls[c].fn = "sendEmail"
    /\ mailer.calls[c].pc = "done"
    /\ mailer.calls[c].hit
    /\ ~mailer.calls[c].threw
    /\ mailer.calls[c].html = FileTemplate(mailer.calls[c].template)
    /\ mailer.calls[d].read = "ok"
    /\ mailer.calls[d].template = mailer.calls[c].template

\* C28: when the file of a template cannot be read, getTemplate and
\* sendEmail use the inline default of that name if defaultTemplates has
\* one and the basic template otherwise, and the failed read does not make
\* the call fail.
UnreadableFileFallsBackToDefault ==
  \A c \in Slots :
    LET call == mailer.calls[c]
    IN  ( /\ call.fn \in {"getTemplate", "sendEmail"}
          /\ call.read = "failed" )
        => /\ call.html = IF call.template \in defaultTemplates
                          THEN DefaultTemplate(call.template)
                          ELSE BasicTemplate
           /\ call.threw => call.fn = "sendEmail" /\ call.pc = "done"

====
